---- MODULE Spec2Model ----
(***************************************************************************)
(* Model of the exam-evaluation pipeline: the job store, the per-job       *)
(* checkpoint files, the exam-level OCR cache and the staged pipeline      *)
(* evaluate_exam / resume_evaluation with its HTTP triggers.               *)
(*                                                                         *)
(* Python dicts are functions with string keys (a key is present iff it    *)
(* is in the DOMAIN); a directory of JSON files is a function from the     *)
(* file's identity to its content.  Timestamps are not modelled.           *)
(***************************************************************************)
EXTENDS Integers, Sequences, FiniteSets, TLC

VARIABLES
    jobs,        \* JobStore._jobs : job_id -> job entry
    ckptFiles,   \* checkpoints/<job_id>_checkpoint.json
    examFiles,   \* checkpoints/<exam_id>_exam.json
    outFiles,    \* outputs/<job_id>_result.json
    uploads,     \* uploads/<job_id>/ : the three stored documents
    pc,          \* position of the background task of each job
    loc,         \* local variables of the running evaluate_exam
    rtask,       \* a resume task scheduled by the trigger is pending
    ncrash,      \* process crashes so far
    ivk,         \* one call of the API invoker: its arguments, position and
                 \* what it has sent, received and slept so far
    agg,         \* one application of the aggregation engine or of the
                 \* validation step: its input and its output
    ext,         \* one application of the response extractor: the reply
                 \* and what was extracted from it
    trn,         \* one preparation of the reasoning prompt: the three texts
    pg,         \* one extraction stage: the documents page by page, and what is stored
    nresume,     \* number of resume attempts made so far
    \* ---- observation (history) variables, never read by the program ----
    entry,       \* checkpoint seen by the current run when it entered
    ocrReq,      \* documents the current run requested extraction for
    llmArgs,     \* texts handed to the reasoning call of the current run
    evalDone,    \* a reasoning call has returned a structured result
    committed,   \* checkpoint as written by the last stage commit
    lastExc,     \* how the last run of the job ended
    failedIn,    \* stage in which the last run of the job failed
    lastPut,     \* cache entry before / after the last save_ocr_results
    missed,      \* jobs that read the cache before it was complete
    sharedBy     \* jobs that requested extraction of a shared document

vars == <<jobs, ckptFiles, examFiles, outFiles, uploads, pc, loc, rtask, ncrash,
          ivk, agg, ext, trn, pg, nresume,
          entry, ocrReq, llmArgs, evalDone, committed, lastExc, failedIn,
          lastPut, missed, sharedBy>>

(***************************************************************************)
(* Bounds                                                                  *)
(***************************************************************************)
NumTexts   == 2     \* distinct outputs the extraction service may give
MaxResumes == 1     \* resume attempts in one behaviour
MaxCrashes == 1     \* process crashes in one behaviour
MaxRetries == 4     \* largest max_retries an invoker call is configured with
LongRetries == 6    \* largest max_retries of the two calls run side by side
NumQuestions == 3   \* questions a section of an aggregated result may hold
MaxScore == 12      \* largest total a question is given

Jobs  == {1, 2}            \* job identities handed out by upload
Texts == 1..NumTexts       \* what extraction may return for a shared document
StudentTexts == {1}        \* what it may return for a student document

\* Contents of uploaded documents.  Both jobs of a batch upload the same
\* question paper and answer key.
QPContents == {1}
AKContents == {1}

\* Contents of the question papers uploaded under BatchSpec, where jobs of
\* different exams run side by side.
BatchQPContents == {1, 2}

\* compute_file_hash keeps a 16-hex-digit prefix of the SHA-256 digest; the
\* model reduces a content modulo the number of digests it distinguishes.
HashSpace == 2^30

None      == "None"                 \* Python None where a string is expected
NoText    == 0                      \* a missing or empty text (falsy)
EmptyDict == [k \in {} |-> 0]       \* {} ; a missing dict is falsy as well
NoResult  == [none |-> TRUE]        \* Python None where a result is expected
NonNumeric == -1                    \* a JSON value that is not a number

\* Marks are numbers with two decimals, counted in hundredths of a mark.
Marks(n) == n * 100

Has(d, k)      == k \in DOMAIN d
Get(d, k, dflt) == IF k \in DOMAIN d THEN d[k] ELSE dflt
Put(d, k, v)   == (k :> v) @@ d
Min(a, b)      == IF a <= b THEN a ELSE b

(***************************************************************************)
(* JobStore                                                                *)
(***************************************************************************)
create_job(J, j) ==
    Put(J, j, [job_id |-> j, status |-> "processing",
               error |-> None, result |-> NoResult])

\* Faulty variant of update_job: the result is never stored.
update_job_noresult(J, j, status, error, result) ==
    IF j \in DOMAIN J
    THEN Put(J, j, [J[j] EXCEPT
                      !.status = status,
                      !.error  = IF error # None /\ error # "" THEN error ELSE @])
    ELSE J

\* A store that takes the error as given, None included.
update_job_overwriting(J, j, status, error, result) ==
    IF j \in DOMAIN J
    THEN Put(J, j, [J[j] EXCEPT
                      !.status = status,
                      !.error  = error,
                      !.result = IF result # NoResult THEN result ELSE @])
    ELSE J

update_job(J, j, status, error, result) ==
    IF j \in DOMAIN J
    THEN Put(J, j, [J[j] EXCEPT
                      !.status = status,
                      !.error  = IF error # None /\ error # "" THEN error ELSE @,
                      !.result = IF result # NoResult THEN result ELSE @])
    ELSE J

(***************************************************************************)
(* CheckpointService, over the directory F of checkpoint files             *)
(***************************************************************************)
\* The content of a file cut short by an interrupted write: not valid JSON.
Truncated == [truncated |-> TRUE]

\* json.load raises JSONDecodeError, which load does not catch.
load_raises(F, j) == j \in DOMAIN F /\ F[j] = Truncated

\* save: open(file, "w") empties the file, json.dump then writes the
\* document.
save(F, j, data) == Put(F, j, data)

\* The directory after a process crash during save(j, data): the crash came
\* before the file was opened, while it was being written, or after the
\* last byte.
save_interrupted(F, j, data) ==
    {F, Put(F, j, Truncated), save(F, j, data)}

init_checkpoint(j) ==
    [job_id |-> j, stage |-> "STARTED", completed_sections |-> <<>>,
     ocr_texts |-> EmptyDict, structure |-> EmptyDict,
     section_results |-> EmptyDict]

get_or_create(F, j) == IF j \in DOMAIN F THEN F[j] ELSE init_checkpoint(j)

save_ocr_complete(F, j, q, a, s) ==
    save(F, j, Put(Put(get_or_create(F, j), "stage", "OCR_COMPLETE"),
                  "ocr_texts", [question_paper |-> q, answer_key |-> a,
                                student_answers |-> s]))

save_final_result(F, j, fr) ==
    save(F, j, Put(Put(get_or_create(F, j), "stage", "AGGREGATION_COMPLETE"),
                  "final_result", fr))

\* Faulty variant of get_ocr_texts: the texts are only
\* returned for a checkpoint of the final stage.
get_ocr_texts_finalonly(F, j) ==
    IF /\ j \in DOMAIN F /\ Has(F[j], "ocr_texts")
       /\ F[j]["stage"] = "AGGREGATION_COMPLETE"
    THEN F[j]["ocr_texts"]
    ELSE EmptyDict

\* None and {} are both falsy and the only caller tests truthiness.
get_ocr_texts(F, j) ==
    IF j \in DOMAIN F /\ Has(F[j], "ocr_texts") THEN F[j]["ocr_texts"]
    ELSE EmptyDict

(***************************************************************************)
(* ExamCheckpointService, over the directory E of exam cache files         *)
(***************************************************************************)
compute_file_hash(content) == content % HashSpace

generate_exam_id(qp, ak) == <<compute_file_hash(qp), compute_file_hash(ak)>>

exam_load(E, e) == IF e \in DOMAIN E THEN E[e] ELSE EmptyDict

exam_save(E, e, data) == Put(E, e, Put(data, "exam_id", e))

\* Faulty variant of save_ocr_results: nothing is stored.
save_ocr_results_later(E, e, q, a) == E

save_ocr_results(E, e, q, a) ==
    exam_save(E, e, Put(Put(exam_load(E, e), "question_paper_text", q),
                        "answer_key_text", a))

\* Faulty variant of ExamCheckpointService.get_ocr_texts: the texts are looked up
\* under keys that save_ocr_results never writes.
exam_get_ocr_texts_wrongkey(E, e) ==
    LET data == exam_load(E, e) IN
    IF /\ Get(data, "question_paper", NoText) # NoText
       /\ Get(data, "answer_key", NoText) # NoText
    THEN [question_paper |-> data["question_paper"],
          answer_key |-> data["answer_key"]]
    ELSE EmptyDict

exam_get_ocr_texts(E, e) ==
    LET data == exam_load(E, e) IN
    IF /\ Get(data, "question_paper_text", NoText) # NoText
       /\ Get(data, "answer_key_text", NoText) # NoText
    THEN [question_paper |-> data["question_paper_text"],
          answer_key |-> data["answer_key_text"]]
    ELSE EmptyDict

(***************************************************************************)
(* validate_and_fix_result                                                 *)
(***************************************************************************)
Sections == {"A", "B", "C"}

\* A default that carries a mark instead of zero.
default_section_one_mark ==
    [questions |-> EmptyDict, retained |-> <<>>, section_total |-> Marks(1)]

default_section ==
    [questions |-> EmptyDict, retained |-> <<>>, section_total |-> 0]

default_summary ==
    [total_marks |-> 0, max_marks |-> Marks(50), result |-> "FAIL",
     examiner_comment |-> "Evaluation incomplete"]

\* One cap for every section.
max_section_uniform(sec) == Marks(20)

max_section(sec) == IF sec = "A" THEN Marks(10) ELSE Marks(20)

\* The result with the missing top-level keys and sections filled in.
with_defaults(result) ==
    LET r1  == IF Has(result, "section_wise_evaluation") THEN result
               ELSE Put(result, "section_wise_evaluation",
                        [sec \in Sections |-> default_section])
        r2  == IF Has(r1, "final_summary") THEN r1
               ELSE Put(r1, "final_summary", default_summary)
        swe == r2["section_wise_evaluation"]
    IN  Put(r2, "section_wise_evaluation",
            [sec \in Sections \cup DOMAIN swe |->
                IF sec \in DOMAIN swe THEN swe[sec] ELSE default_section])

\* Python raises TypeError when a non-number is compared with the cap.
validate_raises(result) ==
    \E sec \in Sections :
        Get(with_defaults(result)["section_wise_evaluation"][sec],
            "section_total", 0) = NonNumeric

validate_and_fix_result(result) ==
    LET r   == with_defaults(result)
        swe == r["section_wise_evaluation"]
        cap(sec) == IF Get(swe[sec], "section_total", 0) > max_section(sec)
                    THEN Put(swe[sec], "section_total", max_section(sec))
                    ELSE swe[sec]
        fixed == [sec \in DOMAIN swe |->
                    IF sec \in Sections THEN cap(sec) ELSE swe[sec]]
        computed_total == Get(fixed["A"], "section_total", 0)
                        + Get(fixed["B"], "section_total", 0)
                        + Get(fixed["C"], "section_total", 0)
        total == Min(computed_total, Marks(50))
        summary == Put(Put(Put(r["final_summary"], "total_marks", total),
                           "max_marks", Marks(50)),
                       "result", IF total >= Marks(25) THEN "PASS" ELSE "FAIL")
    IN  Put(Put(r, "section_wise_evaluation", fixed), "final_summary", summary)

(***************************************************************************)
(* What the external services may answer                                   *)
(***************************************************************************)
\* The questions of a section of a reply, in the order the reply lists them.
questions_of(scores) ==
    [i \in 1..Len(scores) |->
        [id |-> i, data |-> [question_total |-> scores[i]]]]

\* A reply whose stated section totals are the best two of its questions.
ReplyGood ==
    [section_wise_evaluation |->
        [A |-> [questions |-> questions_of(<<Marks(5), Marks(3), Marks(2)>>),
                section_total |-> Marks(8)],
         B |-> [questions |-> questions_of(<<Marks(10), Marks(5), 0>>),
                section_total |-> Marks(15)],
         C |-> [questions |-> questions_of(<<Marks(8), Marks(7)>>),
                section_total |-> Marks(15)]],
     final_summary |-> [total_marks |-> Marks(38), max_marks |-> Marks(50),
                        result |-> "PASS"]]

\* A reply that states more for section A than its questions add up to.
ReplyOver ==
    [section_wise_evaluation |->
        [A |-> [questions |-> questions_of(<<Marks(5), Marks(4), Marks(1)>>),
                section_total |-> Marks(12)],
         B |-> [questions |-> questions_of(<<Marks(4), 0>>),
                section_total |-> Marks(4)],
         C |-> [questions |-> questions_of(<<Marks(4)>>),
                section_total |-> Marks(4)]],
     final_summary |-> [total_marks |-> Marks(45), max_marks |-> Marks(50),
                        result |-> "PASS"]]

ReplyBad ==
    [section_wise_evaluation |->
        [A |-> [section_total |-> NonNumeric],
         B |-> [section_total |-> Marks(4)],
         C |-> [section_total |-> Marks(4)]],
     final_summary |-> [total_marks |-> Marks(8), max_marks |-> Marks(50),
                        result |-> "FAIL"]]

Replies == {ReplyGood, ReplyOver, ReplyBad}

\* Failures of the two invokers and of the response extractor.
ExtractErrors == {"Max retries exceeded"}
ReasonErrors  == {"Fireworks API error 500",
                  "Could not extract valid JSON from LLM response"}

\* Arguments run_async_resume passes and parameters resume_evaluation takes.
run_async_resume_args    == 2
resume_evaluation_params == 1

(***************************************************************************)
(* State machine                                                           *)
(***************************************************************************)
LocInit == [q |-> NoText, a |-> NoText, s |-> NoText]
NoRun   == [ckpt |-> EmptyDict, has |-> FALSE, cache |-> EmptyDict]

\* The pipeline after start-up: no job, no file.
PipelineInit ==
    /\ jobs = EmptyDict
    /\ ckptFiles = EmptyDict
    /\ examFiles = EmptyDict
    /\ outFiles = EmptyDict
    /\ uploads = EmptyDict
    /\ pc = [j \in Jobs |-> "none"]
    /\ loc = [j \in Jobs |-> LocInit]
    /\ rtask = [j \in Jobs |-> FALSE]
    /\ ncrash = 0
    /\ nresume = 0
    /\ entry = [j \in Jobs |-> NoRun]
    /\ ocrReq = [j \in Jobs |-> {}]
    /\ llmArgs = [j \in Jobs |-> EmptyDict]
    /\ evalDone = [j \in Jobs |-> FALSE]
    /\ committed = [j \in Jobs |-> EmptyDict]
    /\ lastExc = [j \in Jobs |-> None]
    /\ failedIn = [j \in Jobs |-> None]
    /\ lastPut = EmptyDict
    /\ missed = {}
    /\ sharedBy = {}

\* No invoker call is under way.
IvkIdle == [st |-> "idle"]

\* The variables of the component specifications, which the pipeline
\* leaves alone.
\* Nothing is being aggregated or validated.
AggIdle == [st |-> "idle"]

\* No reply is being read.
ExtIdle == [st |-> "idle"]
TrnIdle == [st |-> "idle"]
PgIdle == [st |-> "idle"]

unit == <<ivk, agg, ext, trn, pg>>

Init ==
    /\ PipelineInit
    /\ ivk = IvkIdle
    /\ agg = AggIdle
    /\ ext = ExtIdle
    /\ trn = TrnIdle
    /\ pg = PgIdle


files    == <<ckptFiles, examFiles, outFiles, uploads, rtask>>
cacheObs == <<lastPut, missed, sharedBy>>
runObs   == <<entry, ocrReq, llmArgs>>

\* Faulty variant of the fingerprint: derived from the job's upload path
\* instead of the documents' content.
exam_id_of_bypath(j) == generate_exam_id(j, j)

exam_id_of(j) ==
    generate_exam_id(uploads[j]["question_paper"], uploads[j]["answer_key"])

ckpt_of(F, j) == IF j \in DOMAIN F THEN F[j] ELSE EmptyDict

\* The cache entry of exam e holds both shared texts.
EntryComplete(E, e) ==
    /\ e \in DOMAIN E
    /\ Get(E[e], "question_paper_text", NoText) # NoText
    /\ Get(E[e], "answer_key_text", NoText) # NoText

\* Faulty variant of the stage-1 skip test: the student text is
\* looked up under the name of the uploaded file.
ocr_already_complete_wrongkey(texts) ==
    texts # EmptyDict /\ Get(texts, "student_sheet", NoText) # NoText

\* The job-level checkpoint already holds the student text: skip stage 1.
ocr_already_complete(texts) ==
    texts # EmptyDict /\ Get(texts, "student_answers", NoText) # NoText

\* upload_files: store the three documents under a fresh job identity,
\* create the job entry and schedule the evaluation task.
upload_files(j, qp, ak) ==
    /\ \A i \in Jobs : i < j => i \in DOMAIN uploads
    /\ j \notin DOMAIN uploads
    /\ uploads' = Put(uploads, j, [question_paper |-> qp, answer_key |-> ak,
                                   student_sheet |-> 100 + j])
    /\ jobs' = create_job(jobs, j)
    /\ pc' = [pc EXCEPT ![j] = "start"]
    /\ UNCHANGED <<ckptFiles, examFiles, outFiles, loc, rtask, ncrash, nresume,
                   runObs, evalDone, committed, lastExc, failedIn, cacheObs, unit>>

\* The run of job j is over: its task returns and its locals are gone.
EndRun(j, exc, stage) ==
    /\ pc' = [pc EXCEPT ![j] = "idle"]
    /\ loc' = [loc EXCEPT ![j] = LocInit]
    /\ lastExc' = [lastExc EXCEPT ![j] = exc]
    /\ failedIn' = [failedIn EXCEPT ![j] = stage]
    /\ entry' = [entry EXCEPT ![j] = NoRun]
    /\ ocrReq' = [ocrReq EXCEPT ![j] = {}]

\* The except clause of evaluate_exam: record the failure and re-raise;
\* the task wrapper swallows the exception.
Fail(j, msg, stage) ==
    /\ jobs' = update_job(jobs, j, "failed", msg, NoResult)
    /\ EndRun(j, msg, stage)

\* An exception raised outside evaluate_exam's try block.
Raise(j, msg) ==
    /\ EndRun(j, msg, "resume")
    /\ UNCHANGED jobs

\* Faulty variant of use_cached: the two cached texts are taken for each
\* other.
use_cached_swapped(l, exam_ocr) ==
    [l EXCEPT !.q = exam_ocr["answer_key"], !.a = exam_ocr["question_paper"]]

\* The cached texts become the run's question paper and answer key.
use_cached(l, exam_ocr) ==
    [l EXCEPT !.q = exam_ocr["question_paper"], !.a = exam_ocr["answer_key"]]

\* The two shared texts stored for exam e, when both are there.
StoredTexts(E, e) ==
    IF EntryComplete(E, e)
    THEN [question_paper |-> E[e]["question_paper_text"],
          answer_key |-> E[e]["answer_key_text"]]
    ELSE EmptyDict

\* evaluate_exam from its entry to the first extraction request: resume from
\* the job checkpoint, or start stage 1 and read the exam-level cache.
Stage1Begin(j) ==
    /\ pc[j] = "start"
    /\ llmArgs' = [llmArgs EXCEPT ![j] = EmptyDict]
    /\ IF load_raises(ckptFiles, j)
       THEN /\ Fail(j, "JSONDecodeError", "load")
            /\ UNCHANGED missed
       ELSE
       LET job_ocr_texts == get_ocr_texts(ckptFiles, j)
           exam_ocr == exam_get_ocr_texts(examFiles, exam_id_of(j))
       IN
       /\ entry' = [entry EXCEPT ![j] =
                       [ckpt |-> ckpt_of(ckptFiles, j), has |-> TRUE,
                        cache |-> IF ocr_already_complete(job_ocr_texts)
                                  THEN EmptyDict
                                  ELSE StoredTexts(examFiles, exam_id_of(j))]]
       /\ ocrReq' = [ocrReq EXCEPT ![j] = {}]
       /\ UNCHANGED <<lastExc, failedIn>>
       /\ IF ocr_already_complete(job_ocr_texts)
          THEN /\ loc' = [loc EXCEPT ![j] =
                            [q |-> job_ocr_texts["question_paper"],
                             a |-> job_ocr_texts["answer_key"],
                             s |-> job_ocr_texts["student_answers"]]]
               /\ pc' = [pc EXCEPT ![j] = "reason"]
               /\ UNCHANGED <<jobs, missed>>
          ELSE /\ jobs' = update_job(jobs, j, "processing", None, NoResult)
               /\ missed' = IF EntryComplete(examFiles, exam_id_of(j))
                            THEN missed ELSE missed \cup {j}
               /\ IF exam_ocr # EmptyDict
                  THEN /\ loc' = [loc EXCEPT ![j] = use_cached(@, exam_ocr)]
                       /\ pc' = [pc EXCEPT ![j] = "student"]
                  ELSE /\ pc' = [pc EXCEPT ![j] = "qp"]
                       /\ UNCHANGED loc
    /\ UNCHANGED <<files, ncrash, nresume, evalDone, committed,
                   lastPut, sharedBy, unit>>

\* Extraction of the question paper: a text, or the invoker's failure.
ExtractQP(j) ==
    /\ pc[j] = "qp"
    /\ sharedBy' = sharedBy \cup {j}
    /\ \/ \E t \in Texts :
            /\ ocrReq' = [ocrReq EXCEPT ![j] = @ \cup {"question_paper"}]
            /\ loc' = [loc EXCEPT ![j].q = t]
            /\ pc' = [pc EXCEPT ![j] = "ak"]
            /\ UNCHANGED <<jobs, lastExc, failedIn, entry>>
       \/ \E e \in ExtractErrors : Fail(j, e, "extraction")
    /\ UNCHANGED <<files, ncrash, nresume, llmArgs, evalDone, committed,
                   lastPut, missed, unit>>

\* Extraction of the answer key; on success both shared texts are stored in
\* the exam-level cache.
ExtractAK(j) ==
    /\ pc[j] = "ak"
    /\ sharedBy' = sharedBy \cup {j}
    /\ \/ \E t \in Texts :
            /\ ocrReq' = [ocrReq EXCEPT ![j] = @ \cup {"answer_key"}]
            /\ loc' = [loc EXCEPT ![j].a = t]
            /\ examFiles' = save_ocr_results(examFiles, exam_id_of(j),
                                             loc[j].q, t)
            /\ lastPut' = [pre  |-> exam_load(examFiles, exam_id_of(j)),
                           post |-> exam_load(examFiles', exam_id_of(j))]
            /\ pc' = [pc EXCEPT ![j] = "student"]
            /\ UNCHANGED <<jobs, lastExc, failedIn, entry>>
       \/ /\ \E e \in ExtractErrors : Fail(j, e, "extraction")
          /\ UNCHANGED <<examFiles, lastPut>>
    /\ UNCHANGED <<ckptFiles, outFiles, uploads, rtask, ncrash, nresume, llmArgs,
                   evalDone, committed, missed, unit>>

\* Faulty variant of the student extraction: a failed student
\* extraction saves the two shared texts to the job checkpoint before the
\* failure is reported.
ExtractStudent_partial(j) ==
    /\ pc[j] = "student"
    /\ \/ \E t \in StudentTexts :
            /\ ocrReq' = [ocrReq EXCEPT ![j] = @ \cup {"student_sheet"}]
            /\ loc' = [loc EXCEPT ![j].s = t]
            /\ ckptFiles' = save_ocr_complete(ckptFiles, j,
                                              loc[j].q, loc[j].a, t)
            /\ committed' = [committed EXCEPT ![j] = ckptFiles'[j]]
            /\ pc' = [pc EXCEPT ![j] = "reason"]
            /\ UNCHANGED <<jobs, lastExc, failedIn, entry>>
       \/ /\ \E e \in ExtractErrors : Fail(j, e, "extraction")
          /\ ckptFiles' = save_ocr_complete(ckptFiles, j,
                                            loc[j].q, loc[j].a, NoText)
          /\ UNCHANGED committed
    /\ UNCHANGED <<examFiles, outFiles, uploads, rtask, ncrash, nresume, llmArgs,
                   evalDone, cacheObs, unit>>

\* Extraction of the student document; on success stage 1 is committed to
\* the job checkpoint.
ExtractStudent(j) ==
    /\ pc[j] = "student"
    /\ \/ \E t \in StudentTexts :
            /\ ocrReq' = [ocrReq EXCEPT ![j] = @ \cup {"student_sheet"}]
            /\ loc' = [loc EXCEPT ![j].s = t]
            /\ ckptFiles' = save_ocr_complete(ckptFiles, j,
                                              loc[j].q, loc[j].a, t)
            /\ committed' = [committed EXCEPT ![j] = ckptFiles'[j]]
            /\ pc' = [pc EXCEPT ![j] = "reason"]
            /\ UNCHANGED <<jobs, lastExc, failedIn, entry>>
       \/ /\ \E e \in ExtractErrors : Fail(j, e, "extraction")
          /\ UNCHANGED <<ckptFiles, committed>>
    /\ UNCHANGED <<examFiles, outFiles, uploads, rtask, ncrash, nresume, llmArgs,
                   evalDone, cacheObs, unit>>

\* The job is marked completed and the run returns its final result.
Complete(j, final_result) ==
    /\ outFiles' = Put(outFiles, j, final_result)
    /\ jobs' = update_job(jobs, j, "completed", None, final_result)
    /\ EndRun(j, None, None)

\* Stages 2 and 3: the reasoning call with the extraction of its payload,
\* validation, the final checkpoint commit and the result file.
Reason(j) ==
    /\ pc[j] = "reason"
    /\ llmArgs' = [llmArgs EXCEPT ![j] =
                     [question_paper |-> loc[j].q, answer_key |-> loc[j].a,
                      student_answers |-> loc[j].s]]
    /\ \/ /\ \E e \in ReasonErrors : Fail(j, e, "reasoning")
          /\ UNCHANGED <<ckptFiles, outFiles, committed, evalDone>>
       \/ \E r \in Replies :
            /\ evalDone' = [evalDone EXCEPT ![j] = TRUE]
            /\ IF validate_raises(r)
               THEN /\ Fail(j, "TypeError: '>' not supported", "validation")
                    /\ UNCHANGED <<ckptFiles, outFiles, committed>>
               ELSE LET final_result == validate_and_fix_result(r) IN
                    /\ ckptFiles' = save_final_result(ckptFiles, j,
                                                      final_result)
                    /\ committed' = [committed EXCEPT ![j] = ckptFiles'[j]]
                    /\ \/ Complete(j, final_result)
                       \/ /\ Fail(j, "OSError", "save_result")
                          /\ UNCHANGED outFiles
    /\ UNCHANGED <<examFiles, uploads, rtask, ncrash, nresume, cacheObs, unit>>

\* resume_evaluation up to its call of evaluate_exam.
resume_evaluation(j) ==
    IF load_raises(ckptFiles, j)
    THEN Raise(j, "JSONDecodeError")
    ELSE IF j \notin DOMAIN ckptFiles
    THEN Raise(j, "No checkpoint found")
    ELSE IF ~ {"question_paper", "answer_key", "student_sheet"}
                \subseteq DOMAIN uploads[j]
    THEN Raise(j, "Missing PDF files")
    ELSE /\ pc' = [pc EXCEPT ![j] = "start"]
         /\ UNCHANGED <<jobs, loc, lastExc, failedIn, entry, ocrReq>>

\* A caller resumes a failed job, or after a restart of the process a job
\* the store no longer knows, by calling resume_evaluation(job_id).
ResumeEvaluation(j) ==
    /\ pc[j] = "idle"
    /\ IF j \in DOMAIN jobs THEN jobs[j].status = "failed"
                             ELSE j \in DOMAIN uploads
    /\ nresume < MaxResumes
    /\ nresume' = nresume + 1
    /\ resume_evaluation(j)
    /\ UNCHANGED <<files, ncrash, llmArgs, evalDone, committed, cacheObs, unit>>

\* A trigger that turns away a job that is processing, and no other.
resume_job_despite_completed(j) ==
    /\ j \in DOMAIN jobs
    /\ jobs[j].status # "processing"
    /\ ~load_raises(ckptFiles, j)
    /\ j \in DOMAIN ckptFiles
    /\ nresume < MaxResumes
    /\ nresume' = nresume + 1
    /\ jobs' = update_job(jobs, j, "processing", None, NoResult)
    /\ rtask' = [rtask EXCEPT ![j] = TRUE]
    /\ UNCHANGED <<ckptFiles, examFiles, outFiles, uploads, pc, loc, ncrash,
                   runObs, evalDone, committed, lastExc, failedIn, cacheObs, unit>>

\* A trigger that accepts a request whatever the job's status.
resume_job_any_status(j) ==
    /\ j \in DOMAIN jobs
    /\ ~load_raises(ckptFiles, j)
    /\ j \in DOMAIN ckptFiles
    /\ nresume < MaxResumes
    /\ nresume' = nresume + 1
    /\ jobs' = update_job(jobs, j, "processing", None, NoResult)
    /\ rtask' = [rtask EXCEPT ![j] = TRUE]
    /\ UNCHANGED <<ckptFiles, examFiles, outFiles, uploads, pc, loc, ncrash,
                   runObs, evalDone, committed, lastExc, failedIn, cacheObs, unit>>

\* POST /resume/{job_id}: an accepted request marks the job as processing
\* and schedules run_async_resume.  A rejected request changes nothing.
resume_job(j) ==
    /\ j \in DOMAIN jobs
    /\ jobs[j].status # "completed"
    /\ jobs[j].status # "processing"
    /\ ~load_raises(ckptFiles, j)
    /\ j \in DOMAIN ckptFiles
    /\ nresume < MaxResumes
    /\ nresume' = nresume + 1
    /\ jobs' = update_job(jobs, j, "processing", None, NoResult)
    /\ rtask' = [rtask EXCEPT ![j] = TRUE]
    /\ UNCHANGED <<ckptFiles, examFiles, outFiles, uploads, pc, loc, ncrash,
                   runObs, evalDone, committed, lastExc, failedIn, cacheObs, unit>>

\* The scheduled task calls resume_evaluation(job_id, exam_mode); Python
\* raises TypeError when the argument count does not fit the signature, and
\* the task ends there.
run_async_resume(j) ==
    /\ rtask[j]
    /\ rtask' = [rtask EXCEPT ![j] = FALSE]
    /\ IF run_async_resume_args = resume_evaluation_params
       THEN pc[j] = "idle" /\ resume_evaluation(j)
       ELSE UNCHANGED <<jobs, pc, loc, lastExc, failedIn, entry, ocrReq>>
    /\ UNCHANGED <<ckptFiles, examFiles, outFiles, uploads, ncrash, nresume, llmArgs,
                   evalDone, committed, cacheObs, unit>>

\* A stored student document disappears while its job is not running.
DeleteUpload(j) ==
    /\ j \in DOMAIN jobs
    /\ pc[j] = "idle"
    /\ jobs[j].status = "failed"
    /\ "student_sheet" \in DOMAIN uploads[j]
    /\ uploads' = Put(uploads, j,
                      [k \in DOMAIN uploads[j] \ {"student_sheet"} |->
                          uploads[j][k]])
    /\ UNCHANGED <<jobs, ckptFiles, examFiles, outFiles, pc, loc, rtask,
                   ncrash, nresume, runObs, evalDone, committed, lastExc, failedIn,
                   cacheObs, unit>>

Next ==
    \/ \E j \in Jobs, qp \in QPContents, ak \in AKContents :
            upload_files(j, qp, ak)
    \/ \E j \in Jobs : Stage1Begin(j)
    \/ \E j \in Jobs : ExtractQP(j)
    \/ \E j \in Jobs : ExtractAK(j)
    \/ \E j \in Jobs : ExtractStudent(j)
    \/ \E j \in Jobs : Reason(j)
    \/ \E j \in Jobs : ResumeEvaluation(j)
    \/ \E j \in Jobs : resume_job(j)
    \/ \E j \in Jobs : run_async_resume(j)
    \/ \E j \in Jobs : DeleteUpload(j)

Spec == Init /\ [][Next]_vars

\* A batch of uploads without resumes: the jobs may belong to different
\* exams.
BatchNext ==
    \/ \E j \in Jobs, qp \in BatchQPContents, ak \in AKContents :
            upload_files(j, qp, ak)
    \/ \E j \in Jobs : Stage1Begin(j)
    \/ \E j \in Jobs : ExtractQP(j)
    \/ \E j \in Jobs : ExtractAK(j)
    \/ \E j \in Jobs : ExtractStudent(j)
    \/ \E j \in Jobs : Reason(j)

BatchSpec == Init /\ [][BatchNext]_vars

\* What the running step of job j is about to save to the job's checkpoint.
pending_saves(j) ==
    IF pc[j] = "student"
    THEN {Put(Put(get_or_create(ckptFiles, j), "stage", "OCR_COMPLETE"),
              "ocr_texts", [question_paper |-> loc[j].q,
                            answer_key |-> loc[j].a,
                            student_answers |-> t]) : t \in StudentTexts}
    ELSE {Put(Put(get_or_create(ckptFiles, j), "stage", "AGGREGATION_COMPLETE"),
              "final_result", validate_and_fix_result(r)) :
            r \in {x \in Replies : ~validate_raises(x)}}

\* The process dies while job j saves its checkpoint.  Every run ends, the
\* in-memory job store is empty after the restart and the files stay as
\* they are, the one being written in any state the interrupted write can
\* leave.  A job without a checkpoint first saves the initial one.
CrashInSave(j) ==
    /\ ncrash < MaxCrashes
    /\ pc[j] \in {"student", "reason"}
    /\ ncrash' = ncrash + 1
    /\ \E data \in pending_saves(j) :
          ckptFiles' \in
              save_interrupted(ckptFiles, j, data) \cup
              (IF j \in DOMAIN ckptFiles THEN {}
               ELSE {save(ckptFiles, j, init_checkpoint(j))})
    /\ jobs' = EmptyDict
    /\ pc' = [i \in Jobs |-> IF i \in DOMAIN uploads THEN "idle" ELSE "none"]
    /\ loc' = [i \in Jobs |-> LocInit]
    /\ rtask' = [i \in Jobs |-> FALSE]
    /\ entry' = [i \in Jobs |-> NoRun]
    /\ ocrReq' = [i \in Jobs |-> {}]
    /\ llmArgs' = [i \in Jobs |-> EmptyDict]
    /\ lastExc' = [i \in Jobs |-> None]
    /\ failedIn' = [i \in Jobs |-> None]
    /\ UNCHANGED <<examFiles, outFiles, uploads, nresume, evalDone,
                   committed, cacheObs, unit>>

\* The pipeline with process crashes and resumes after the restart.
CrashNext ==
    \/ \E j \in Jobs, qp \in QPContents, ak \in AKContents :
            upload_files(j, qp, ak)
    \/ \E j \in Jobs : Stage1Begin(j)
    \/ \E j \in Jobs : ExtractQP(j)
    \/ \E j \in Jobs : ExtractAK(j)
    \/ \E j \in Jobs : ExtractStudent(j)
    \/ \E j \in Jobs : Reason(j)
    \/ \E j \in Jobs : ResumeEvaluation(j)
    \/ \E j \in Jobs : CrashInSave(j)

CrashSpec == Init /\ [][CrashNext]_vars

(***************************************************************************)
(* The API invokers call_groq_api and call_fireworks_api                   *)
(***************************************************************************)
pipeVars == <<jobs, ckptFiles, examFiles, outFiles, uploads, pc, loc, rtask,
              ncrash, nresume, entry, ocrReq, llmArgs, evalDone, committed,
              lastExc, failedIn, lastPut, missed, sharedBy>>

Services == {"groq", "fireworks"}

\* retry_backoff_seconds of the configuration (its default).
base_delay == 5

\* What one attempt can meet: an HTTP status, a timeout, a refused
\* connection.
Statuses == {"200", "429", "413", "503", "500", "401"}
Failures == {"timeout", "connect"}

\* The retry-after header of a response: absent, a number of seconds, or a
\* value of another form (an HTTP date).
NoHint == [form |-> "absent", v |-> 0]
RetryAfterHints == {NoHint, [form |-> "int", v |-> 3],
                    [form |-> "other", v |-> 0]}

\* The body of a 200 response: a completion with its content, or something
\* that is not one.
ReplyBodies == {[wellformed |-> TRUE, content |-> 1],
                [wellformed |-> TRUE, content |-> 2],
                [wellformed |-> FALSE, content |-> 0]}
NoBody == [wellformed |-> FALSE, content |-> 0]

Outcomes ==
    {[status |-> "200", hint |-> NoHint, body |-> b] : b \in ReplyBodies}
    \cup {[status |-> st, hint |-> h, body |-> NoBody] :
             st \in {"429", "413"}, h \in RetryAfterHints}
    \cup {[status |-> st, hint |-> NoHint, body |-> NoBody] :
             st \in {"503", "500", "401"} \cup Failures}

\* The request body, built once before the loop.
build_payload(svc, messages) ==
    IF svc = "groq"
    THEN [model |-> "maverick", messages |-> messages, max_tokens |-> 3000]
    ELSE [model |-> "qwen3-vl", messages |-> messages, max_tokens |-> 32768]

\* Faulty variant of request_body: the output budget shrinks with every
\* retry.
request_body_rebuilt(payload, attempt) ==
    [payload EXCEPT !.max_tokens = @ - attempt]

\* What attempt number `attempt` posts: json=payload.
request_body(payload, attempt) == payload

\* Faulty variant of status_class: a 500 is retried like a 503.
status_class_retry500(st) ==
    CASE st = "200" -> "ok"
      [] st \in {"429", "413"} -> "rate_limit"
      [] st \in {"503", "500"} -> "unavailable"
      [] st = "timeout" -> "timeout"
      [] st = "connect" -> "connect"
      [] OTHER -> "error"

\* The branch of the loop body an outcome takes.
status_class(st) ==
    CASE st = "200" -> "ok"
      [] st \in {"429", "413"} -> "rate_limit"
      [] st = "503" -> "unavailable"
      [] st = "timeout" -> "timeout"
      [] st = "connect" -> "connect"
      [] OTHER -> "error"

\* int(retry_after) raises ValueError unless the header is a decimal number.
int_raises(hint) == hint.form # "int"

\* Faulty variant of rate_limit_delay: the exponent has no ceiling.
rate_limit_delay_uncapped(hint, attempt) ==
    IF hint.form # "absent" THEN hint.v + 2
    ELSE base_delay * 2 ^ attempt

rate_limit_delay(hint, attempt) ==
    IF hint.form # "absent" THEN hint.v + 2
    ELSE base_delay * 2 ^ Min(attempt, 4)

backoff_delay(attempt) == base_delay * 2 ^ Min(attempt, 3)

ApiKeyError(svc) ==
    IF svc = "groq" THEN "GROQ_API_KEY not set"
    ELSE "FIREWORKS_API_KEY not set"

UpstreamError(svc, st) ==
    IF svc = "groq" THEN "Groq API error " \o st
    ELSE "Fireworks API error " \o st

ExhaustedError(svc) ==
    IF svc = "groq" THEN "Max retries exceeded"
    ELSE "Fireworks API: Max retries exceeded"

Returned(content) == [ok |-> TRUE, content |-> content, error |-> None]
Raised(error)     == [ok |-> FALSE, content |-> 0, error |-> error]

\* A call that has just been made.
IvkCalled(svc, api_key, max_retries, messages) ==
    [st |-> "called", svc |-> svc, api_key |-> api_key,
     max_retries |-> max_retries, messages |-> messages,
     payload |-> EmptyDict, attempt |-> 0, sent |-> <<>>, seen |-> <<>>,
     hints |-> <<>>, body |-> NoBody, delay |-> 0, nsleeps |-> 0,
     result |-> Raised(None)]

InvokerInit ==
    /\ PipelineInit
    /\ ivk \in {IvkCalled(svc, key, n, m) :
                  svc \in Services, key \in {"", "key"},
                  n \in 0..MaxRetries, m \in {1, 2}}
    /\ agg = AggIdle
    /\ ext = ExtIdle
    /\ trn = TrnIdle
    /\ pg = PgIdle

\* The call up to its loop: the key is checked and the payload built.
call_api ==
    /\ ivk.st = "called"
    /\ ivk' = IF ivk.api_key = ""
              THEN [ivk EXCEPT !.st = "raised",
                               !.result = Raised(ApiKeyError(ivk.svc))]
              ELSE [ivk EXCEPT !.st = "loop",
                               !.payload = build_payload(ivk.svc, ivk.messages)]
    /\ UNCHANGED <<pipeVars, agg, ext, trn, pg>>

\* The call sleeps `delay` seconds and goes to the next attempt.
sleep_and_retry(c, delay) ==
    [c EXCEPT !.attempt = @ + 1, !.delay = delay, !.nsleeps = @ + 1]

\* One iteration of the loop: the request is posted and meets outcome o.
post(o) ==
    /\ ivk.st = "loop"
    /\ ivk.attempt < ivk.max_retries
    /\ LET c == [ivk EXCEPT
                    !.sent = Append(@, request_body(ivk.payload, ivk.attempt)),
                    !.seen = Append(@, o.status),
                    !.hints = Append(@, o.hint.form),
                    !.body = o.body]
           class == status_class(o.status)
       IN ivk' =
          CASE class = "ok" ->
                 IF o.body.wellformed
                 THEN [c EXCEPT !.st = "returned",
                                !.result = Returned(o.body.content)]
                 ELSE [c EXCEPT !.st = "raised",
                                !.result = Raised("KeyError: 'choices'")]
            [] class = "rate_limit" ->
                 IF o.hint.form # "absent" /\ int_raises(o.hint)
                 THEN [c EXCEPT !.st = "raised",
                                !.result = Raised("ValueError: invalid literal for int()")]
                 ELSE sleep_and_retry(c, rate_limit_delay(o.hint, ivk.attempt))
            [] class \in {"unavailable", "timeout", "connect"} ->
                 sleep_and_retry(c, backoff_delay(ivk.attempt))
            [] OTHER ->
                 [c EXCEPT !.st = "raised",
                           !.result = Raised(UpstreamError(ivk.svc, o.status))]
    /\ UNCHANGED <<pipeVars, agg, ext, trn, pg>>

\* The loop ran out of attempts.
max_retries_exceeded ==
    /\ ivk.st = "loop"
    /\ ivk.attempt >= ivk.max_retries
    /\ ivk' = [ivk EXCEPT !.st = "raised",
                          !.result = Raised(ExhaustedError(ivk.svc))]
    /\ UNCHANGED <<pipeVars, agg, ext, trn, pg>>

InvokerNext ==
    \/ call_api
    \/ \E o \in Outcomes : post(o)
    \/ max_retries_exceeded

InvokerSpec == InvokerInit /\ [][InvokerNext]_vars

(***************************************************************************)
(* call_groq_api and call_fireworks_api side by side                       *)
(*                                                                         *)
(* Each function is translated from its own code.  The two calls are given *)
(* the same max_retries and api key and meet the same outcome at each      *)
(* attempt.  The body of a 200 response may carry a "usage" entry, which   *)
(* only call_fireworks_api reads.                                          *)
(***************************************************************************)
UsageForms == {"absent", "object", "null"}

PairBodies ==
    {[wellformed |-> TRUE, content |-> 1, usage |-> u] : u \in UsageForms}
    \cup {[wellformed |-> FALSE, content |-> 0, usage |-> "absent"]}

PairNoBody == [wellformed |-> FALSE, content |-> 0, usage |-> "absent"]

\* No attempt has been made yet.
NoOutcome == [status |-> "none", hint |-> NoHint, body |-> PairNoBody]

PairOutcomes ==
    {[status |-> "200", hint |-> NoHint, body |-> b] : b \in PairBodies}
    \cup {[status |-> st, hint |-> h, body |-> PairNoBody] :
             st \in {"429", "413"}, h \in RetryAfterHints}
    \cup {[status |-> st, hint |-> NoHint, body |-> PairNoBody] :
             st \in {"503", "500", "401"} \cup Failures}

\* One of the two calls: where it is, the attempt it is at, the requests it
\* has sent, its last sleep and the number of its sleeps, its result.
Call(st, result) ==
    [st |-> st, attempt |-> 0, nsent |-> 0, delay |-> 0, nsleeps |-> 0,
     result |-> result]

groq_call(api_key) ==
    IF api_key = "" THEN Call("raised", Raised("GROQ_API_KEY not set"))
    ELSE Call("loop", Raised(None))

fireworks_call(api_key) ==
    IF api_key = "" THEN Call("raised", Raised("FIREWORKS_API_KEY not set"))
    ELSE Call("loop", Raised(None))

call_sleeps(c, delay) ==
    [c EXCEPT !.attempt = @ + 1, !.nsent = @ + 1, !.delay = delay,
              !.nsleeps = @ + 1]

call_ends(c, st, result) ==
    [c EXCEPT !.st = st, !.nsent = @ + 1, !.result = result]

\* One iteration of the loop of call_groq_api.
groq_attempt(c, o) ==
    IF o.status = "200"
    THEN IF o.body.wellformed
         THEN call_ends(c, "returned", Returned(o.body.content))
         ELSE call_ends(c, "raised", Raised("KeyError: 'choices'"))
    ELSE IF o.status \in {"429", "413"}
    THEN IF o.hint.form # "absent" /\ int_raises(o.hint)
         THEN call_ends(c, "raised",
                        Raised("ValueError: invalid literal for int()"))
         ELSE call_sleeps(c, rate_limit_delay(o.hint, c.attempt))
    ELSE IF o.status = "503"
    THEN call_sleeps(c, backoff_delay(c.attempt))
    ELSE IF o.status = "timeout"
    THEN call_sleeps(c, backoff_delay(c.attempt))
    ELSE IF o.status = "connect"
    THEN call_sleeps(c, backoff_delay(c.attempt))
    ELSE call_ends(c, "raised", Raised("Groq API error " \o o.status))

\* One iteration of the loop of call_fireworks_api.  After the content is
\* read, a "usage" entry of the body is asked for its total_tokens; one
\* that is not an object has no get and AttributeError is raised.
fireworks_attempt(c, o) ==
    IF o.status = "200"
    THEN IF ~o.body.wellformed
         THEN call_ends(c, "raised", Raised("KeyError: 'choices'"))
         ELSE IF o.body.usage = "null"
         THEN call_ends(c, "raised",
                        Raised("AttributeError: 'NoneType' object has no attribute 'get'"))
         ELSE call_ends(c, "returned", Returned(o.body.content))
    ELSE IF o.status \in {"429", "413"}
    THEN IF o.hint.form # "absent"
         THEN IF int_raises(o.hint)
              THEN call_ends(c, "raised",
                             Raised("ValueError: invalid literal for int()"))
              ELSE call_sleeps(c, o.hint.v + 2)
         ELSE call_sleeps(c, base_delay * 2 ^ Min(c.attempt, 4))
    ELSE IF o.status = "503"
    THEN call_sleeps(c, base_delay * 2 ^ Min(c.attempt, 3))
    ELSE IF o.status = "timeout"
    THEN call_sleeps(c, base_delay * 2 ^ Min(c.attempt, 3))
    ELSE IF o.status = "connect"
    THEN call_sleeps(c, base_delay * 2 ^ Min(c.attempt, 3))
    ELSE call_ends(c, "raised", Raised("Fireworks API error " \o o.status))

\* The statement after the loop of each function.
groq_exhausted(c) ==
    [c EXCEPT !.st = "raised", !.result = Raised("Max retries exceeded")]

fireworks_exhausted(c) ==
    [c EXCEPT !.st = "raised",
              !.result = Raised("Fireworks API: Max retries exceeded")]

PairInit ==
    /\ PipelineInit
    /\ agg = AggIdle
    /\ ext = ExtIdle
    /\ trn = TrnIdle
    /\ pg = PgIdle
    /\ ivk \in {[st |-> "pair", max_retries |-> n, last |-> NoOutcome,
                  groq |-> groq_call(key), fireworks |-> fireworks_call(key)] :
                  n \in 0..LongRetries, key \in {"", "key"}}

InLoop(c) == c.st = "loop" /\ c.attempt < ivk.max_retries

\* Each call that is still in its loop posts its request; both meet o.
pair_post(o) ==
    /\ ivk.st = "pair"
    /\ InLoop(ivk.groq) \/ InLoop(ivk.fireworks)
    /\ ivk' = [ivk EXCEPT
                  !.last = o,
                  !.groq = IF InLoop(@) THEN groq_attempt(@, o) ELSE @,
                  !.fireworks = IF InLoop(@) THEN fireworks_attempt(@, o)
                                ELSE @]
    /\ UNCHANGED <<pipeVars, agg, ext, trn, pg>>

\* Each call that has used up its attempts leaves its loop.
pair_exhausted ==
    /\ ivk.st = "pair"
    /\ ~InLoop(ivk.groq) /\ ~InLoop(ivk.fireworks)
    /\ ivk.groq.st = "loop" \/ ivk.fireworks.st = "loop"
    /\ ivk' = [ivk EXCEPT
                  !.groq = IF @.st = "loop" THEN groq_exhausted(@) ELSE @,
                  !.fireworks = IF @.st = "loop" THEN fireworks_exhausted(@)
                                ELSE @]
    /\ UNCHANGED <<pipeVars, agg, ext, trn, pg>>

PairNext ==
    \/ \E o \in PairOutcomes : pair_post(o)
    \/ pair_exhausted

PairSpec == PairInit /\ [][PairNext]_vars

(***************************************************************************)
(* The aggregation engine (aggregator.py) and the validation step          *)
(*                                                                         *)
(* A dict of questions is a sequence of items [id, data] in insertion      *)
(* order, which is the order Python iterates it in.                        *)
(***************************************************************************)
SECTION_CONFIG ==
    [A |-> [max_marks |-> Marks(10), retain_best |-> 2,
            question_max |-> Marks(5)],
     B |-> [max_marks |-> Marks(20), retain_best |-> 2,
            question_max |-> Marks(10)],
     C |-> [max_marks |-> Marks(20), retain_best |-> 2,
            question_max |-> Marks(10)]]

TOTAL_MAX == Marks(50)

\* Faulty variant of PASS_MARKS: the threshold is 30.
PASS_MARKS_thirty == Marks(30)

PASS_MARKS == Marks(25)

get_section_max_marks(section) ==
    IF section \in DOMAIN SECTION_CONFIG
    THEN SECTION_CONFIG[section].max_marks ELSE Marks(10)

\* Faulty variant of retain_best: three questions are kept.
retain_best_three(section) == 3

retain_best(section) ==
    IF section \in DOMAIN SECTION_CONFIG
    THEN SECTION_CONFIG[section].retain_best ELSE 2

RECURSIVE SumMarks(_)
SumMarks(items) ==
    IF items = <<>> THEN 0 ELSE Head(items).marks + SumMarks(Tail(items))

RECURSIVE sum_subdivisions(_, _)
sum_subdivisions(subs, ids) ==
    IF ids = {} THEN 0
    ELSE LET i == CHOOSE x \in ids : TRUE IN
         Get(subs[i], "marks_awarded", 0) + sum_subdivisions(subs, ids \ {i})

calculate_question_total(question_data) ==
    IF Has(question_data, "question_total") THEN question_data["question_total"]
    ELSE IF Has(question_data, "total_awarded")
    THEN question_data["total_awarded"]
    ELSE IF Has(question_data, "marks_awarded")
    THEN question_data["marks_awarded"]
    ELSE LET subs == Get(question_data, "subdivisions", EmptyDict) IN
         sum_subdivisions(subs, DOMAIN subs)

\* The value of a question entry that is not a dict, such as a bare number.
NotADict == [notadict |-> TRUE]

IsDictItem(item) == item.data # NotADict

\* float(x) raises for a value that is not a number.
calculate_question_total_raises(question_data) ==
    IF Has(question_data, "question_total")
    THEN question_data["question_total"] = NonNumeric
    ELSE IF Has(question_data, "total_awarded")
    THEN question_data["total_awarded"] = NonNumeric
    ELSE IF Has(question_data, "marks_awarded")
    THEN question_data["marks_awarded"] = NonNumeric
    ELSE LET subs == Get(question_data, "subdivisions", EmptyDict) IN
         \E i \in DOMAIN subs : Get(subs[i], "marks_awarded", 0) = NonNumeric

\* question_scores: the (question_id, marks_awarded) tuples of the entries
\* that are dicts, in input order.
question_scores(questions) ==
    LET dicts == SelectSeq(questions, IsDictItem)
    IN  [i \in 1..Len(dicts) |->
            [id |-> dicts[i].id,
             marks |-> calculate_question_total(dicts[i].data)]]

\* list.sort(key=marks, reverse=True): descending and stable.
\* Faulty variant of insert_desc: a score goes before the equal scores that
\* came earlier.
RECURSIVE insert_desc_unstable(_, _)
insert_desc_unstable(x, sorted) ==
    IF sorted = <<>> THEN <<x>>
    ELSE IF Head(sorted).marks <= x.marks THEN <<x>> \o sorted
    ELSE <<Head(sorted)>> \o insert_desc_unstable(x, Tail(sorted))

RECURSIVE insert_desc(_, _)
insert_desc(x, sorted) ==
    IF sorted = <<>> THEN <<x>>
    ELSE IF Head(sorted).marks < x.marks THEN <<x>> \o sorted
    ELSE <<Head(sorted)>> \o insert_desc(x, Tail(sorted))

\* Faulty variant of sort_desc: the scores are left in input order.
sort_desc_none(items) == items

RECURSIVE sort_desc(_)
sort_desc(items) ==
    IF items = <<>> THEN <<>>
    ELSE insert_desc(items[Len(items)],
                     sort_desc(SubSeq(items, 1, Len(items) - 1)))

\* Faulty variant of apply_answer_any_two_rule: the cap is not applied.
apply_answer_any_two_rule_nocap(section_result, section) ==
    LET scores == sort_desc(question_scores(
                      Get(section_result, "questions", <<>>)))
        n == Min(Len(scores), retain_best(section))
    IN  [retained |-> [i \in 1..n |-> scores[i].id],
         discarded |-> [i \in 1..(Len(scores) - n) |-> scores[n + i].id],
         section_total |-> SumMarks(SubSeq(scores, 1, n))]

apply_answer_any_two_rule(section_result, section) ==
    LET scores == sort_desc(question_scores(
                      Get(section_result, "questions", <<>>)))
        n == Min(Len(scores), retain_best(section))
    IN  [retained |-> [i \in 1..n |-> scores[i].id],
         discarded |-> [i \in 1..(Len(scores) - n) |-> scores[n + i].id],
         section_total |-> Min(SumMarks(SubSeq(scores, 1, n)),
                               get_section_max_marks(section))]

\* A percentage is a number with one decimal, counted in tenths of a percent.
Percent(n) == n * 10

\* round(num / den * 100, 1) in tenths of a percent: the nearest tenth.
round1(num, den) == (2 * 1000 * num + den) \div (2 * den)

calculate_grade(percentage) ==
    IF percentage >= Percent(90) THEN "O"
    ELSE IF percentage >= Percent(80) THEN "A+"
    ELSE IF percentage >= Percent(70) THEN "A"
    ELSE IF percentage >= Percent(60) THEN "B+"
    ELSE IF percentage >= Percent(55) THEN "B"
    ELSE IF percentage >= Percent(50) THEN "C"
    ELSE IF percentage >= Percent(45) THEN "D"
    ELSE "F"

\* compute_final_result raises: a question total of an evaluated section is
\* not a number.
compute_final_result_raises(section_results) ==
    \E sec \in Sections \cap DOMAIN section_results :
        LET questions == Get(section_results[sec], "questions", <<>>) IN
        \E i \in 1..Len(questions) :
            /\ IsDictItem(questions[i])
            /\ calculate_question_total_raises(questions[i].data)

\* compute_final_result without its feedback texts.
compute_final_result(section_results) ==
    LET rule(sec) == apply_answer_any_two_rule(section_results[sec], sec)
        sections ==
            [sec \in Sections |->
                IF sec \notin DOMAIN section_results
                THEN [retained_questions |-> <<>>,
                      discarded_questions |-> <<>>,
                      questions |-> <<>>,
                      section_total |-> 0,
                      section_max |-> get_section_max_marks(sec)]
                ELSE [retained_questions |-> rule(sec).retained,
                      discarded_questions |-> rule(sec).discarded,
                      questions |-> Get(section_results[sec], "questions", <<>>),
                      section_total |-> rule(sec).section_total,
                      section_max |-> get_section_max_marks(sec)]]
        grand_total == sections["A"].section_total
                     + sections["B"].section_total
                     + sections["C"].section_total
        percentage == IF TOTAL_MAX > 0
                      THEN round1(grand_total, TOTAL_MAX) ELSE 0
    IN  [exam_mode |-> "PT-II",
         sections |-> sections,
         section_totals |-> [sec \in Sections |-> sections[sec].section_total],
         grand_total |-> grand_total,
         max_possible |-> TOTAL_MAX,
         percentage |-> percentage,
         grade |-> calculate_grade(percentage),
         result |-> IF grand_total >= PASS_MARKS THEN "PASS" ELSE "FAIL"]

\* Inputs: the totals a question may be given, the questions of a section,
\* the evaluated sections.
FractionalScore == 249

ScoreValues == {0, FractionalScore, Marks(4), Marks(MaxScore)}

QuestionLists ==
    UNION {[1..n -> ScoreValues] : n \in {0, NumQuestions - 1, NumQuestions}}

SectionResults ==
    {[A |-> [questions |-> questions_of(qa)],
      B |-> [questions |-> questions_of(qb)]] :
        qa \in QuestionLists, qb \in [1..2 -> ScoreValues] \cup {<<>>}}
    \cup {[A |-> [questions |-> questions_of(qa)],
           B |-> [questions |-> questions_of(qa)],
           C |-> [questions |-> questions_of(qa)]] : qa \in QuestionLists}
    \cup {[A |-> [questions |-> questions_of(qa)],
           B |-> [questions |-> questions_of(qb)],
           C |-> [questions |-> questions_of(qc)]] :
        qa \in [1..(NumQuestions - 1) -> ScoreValues],
        qb \in [1..2 -> ScoreValues], qc \in [1..2 -> ScoreValues]}
    \cup {[A |-> [questions |-> questions_of(<<Marks(5), Marks(3), Marks(4)>>)]]}
    \cup {[A |-> [questions |->
                    [questions_of(qa) EXCEPT ![i].data = NotADict]]] :
             qa \in [1..NumQuestions -> {Marks(4)}], i \in 1..NumQuestions}
    \cup {[B |-> [questions |-> questions_of(<<Marks(4), NonNumeric>>)]]}

\* Inputs of the validation step: replies that state a total for each of
\* their sections, with or without the top-level keys.
StatedTotals ==
    {0, Marks(10), Marks(10) + 1, Marks(20), Marks(20) + 1,
     Marks(2 * MaxScore + 1)}

ValidatorInputs ==
    {[section_wise_evaluation |-> swe] :
        swe \in [Sections -> [section_total : StatedTotals]]}
    \cup {[section_wise_evaluation |-> swe,
           final_summary |-> [total_marks |-> Marks(50), result |-> "PASS"]] :
        swe \in [{"A", "B"} -> [section_total : StatedTotals]]}
    \cup {EmptyDict, ReplyBad}

AggInit ==
    /\ PipelineInit
    /\ ivk = IvkIdle
    /\ ext = ExtIdle
    /\ trn = TrnIdle
    /\ pg = PgIdle
    /\ agg \in {[st |-> "input", kind |-> "sections", input |-> x,
                  out |-> EmptyDict] : x \in SectionResults}
             \cup {[st |-> "input", kind |-> "reply", input |-> x,
                    out |-> EmptyDict] : x \in ValidatorInputs}

\* The aggregation engine is applied to the section results.
aggregate ==
    /\ agg.st = "input" /\ agg.kind = "sections"
    /\ ~compute_final_result_raises(agg.input)
    /\ agg' = [agg EXCEPT !.st = "done",
                          !.out = compute_final_result(agg.input)]
    /\ UNCHANGED <<pipeVars, ivk, ext, trn, pg>>

\* The validation step of the pipeline is applied to a reasoning result.
validate ==
    /\ agg.st = "input" /\ agg.kind = "reply"
    /\ ~validate_raises(agg.input)
    /\ agg' = [agg EXCEPT !.st = "done",
                          !.out = validate_and_fix_result(agg.input)]
    /\ UNCHANGED <<pipeVars, ivk, ext, trn, pg>>

\* The aggregation engine raises ValueError from float().
aggregate_fails ==
    /\ agg.st = "input" /\ agg.kind = "sections"
    /\ compute_final_result_raises(agg.input)
    /\ agg' = [agg EXCEPT !.st = "raised"]
    /\ UNCHANGED <<pipeVars, ivk, ext, trn, pg>>

\* The validation step raises TypeError from its comparison with the cap.
validate_fails ==
    /\ agg.st = "input" /\ agg.kind = "reply"
    /\ validate_raises(agg.input)
    /\ agg' = [agg EXCEPT !.st = "raised"]
    /\ UNCHANGED <<pipeVars, ivk, ext, trn, pg>>

AggNext == aggregate \/ validate \/ aggregate_fails \/ validate_fails

AggSpec == AggInit /\ [][AggNext]_vars

(***************************************************************************)
(* The response extractor (extract_json_from_response)                     *)
(*                                                                         *)
(* A reply is a sequence of tokens; white space is not a token.            *)
(*   "{" "}" "[" "]" ","   the punctuation of JSON                         *)
(*   "v"   a member with a scalar value, such as "marks": 5                *)
(*   "n"   a key and its colon, to be followed by an object or an array    *)
(*   "e"   a scalar                                                        *)
(*   "w"   a word of prose                                                 *)
(*   "F"   a fence ```          "J"   a fence with a tag ```json           *)
(* The value json.loads returns for a text is written as the token         *)
(* sequence of that text.                                                  *)
(***************************************************************************)
At(s, i) == IF i \in 1..Len(s) THEN s[i] ELSE ""

\* The JSON grammar.  Each operator takes the position where its phrase
\* starts and gives the position after it, or 0 when there is none.
RECURSIVE ParseValue(_, _), ParseMembers(_, _), ParseElements(_, _)
ParseValue(s, i) ==
    CASE At(s, i) = "e" -> i + 1
      [] At(s, i) = "{" -> IF At(s, i + 1) = "}" THEN i + 2
                           ELSE ParseMembers(s, i + 1)
      [] At(s, i) = "[" -> IF At(s, i + 1) = "]" THEN i + 2
                           ELSE ParseElements(s, i + 1)
      [] OTHER -> 0

ParseMembers(s, i) ==
    LET m == CASE At(s, i) = "v" -> i + 1
               [] At(s, i) = "n" -> ParseValue(s, i + 1)
               [] OTHER -> 0
    IN  IF m = 0 THEN 0
        ELSE IF At(s, m) = "," THEN ParseMembers(s, m + 1)
        ELSE IF At(s, m) = "}" THEN m + 1
        ELSE 0

ParseElements(s, i) ==
    LET m == ParseValue(s, i)
    IN  IF m = 0 THEN 0
        ELSE IF At(s, m) = "," THEN ParseElements(s, m + 1)
        ELSE IF At(s, m) = "]" THEN m + 1
        ELSE 0

\* json.loads(text) raises JSONDecodeError.
json_loads_raises(s) == ParseValue(s, 1) # Len(s) + 1

\* The positions of a sequence that satisfy a test, and the subsequence of
\* a sequence at the positions of a set, in order.
RECURSIVE Pick(_, _)
Pick(s, keep) ==
    IF s = <<>> THEN <<>>
    ELSE LET rest == Pick(SubSeq(s, 1, Len(s) - 1), keep)
         IN  IF Len(s) \in keep THEN Append(rest, s[Len(s)]) ELSE rest

\* re.sub(r',\s*}', '}', ...) then re.sub(r',\s*]', ']', ...).
strip_trailing_commas(s) ==
    LET s1 == Pick(s, {i \in 1..Len(s) : ~(s[i] = "," /\ At(s, i + 1) = "}")})
    IN  Pick(s1, {i \in 1..Len(s1) : ~(s1[i] = "," /\ At(s1, i + 1) = "]")})

Extracted(value, how, start) ==
    [ok |-> TRUE, value |-> value, how |-> how, start |-> start]

Unparsable ==
    [ok |-> FALSE, value |-> <<>>, how |-> "none", start |-> 0,
     error |-> "Could not extract valid JSON from LLM response"]

IsFence(t) == t \in {"F", "J"}

\* re.findall of a fenced-block pattern from position i on: the contents of
\* the blocks, each with the position it starts at.  A block opens at the
\* first opening fence and closes at the next fence of either kind; with
\* the untagged pattern a tagged fence opens a block whose content starts
\* with the tag.
RECURSIVE find_blocks(_, _, _)
find_blocks(s, i, tagged) ==
    LET opens  == {k \in i..Len(s) :
                     IF tagged THEN s[k] = "J" ELSE IsFence(s[k])}
        open   == CHOOSE k \in opens : \A m \in opens : k <= m
        closes == {k \in (open + 1)..Len(s) : IsFence(s[k])}
        close  == CHOOSE k \in closes : \A m \in closes : k <= m
        content == SubSeq(s, open + 1, close - 1)
    IN  IF opens = {} THEN <<>>
        ELSE IF closes = {} THEN <<>>
        ELSE <<[content |-> IF ~tagged /\ s[open] = "J"
                            THEN <<"w">> \o content ELSE content,
                start |-> open + 1]>>
             \o find_blocks(s, close + 1, tagged)

\* The loop over the matches of the two patterns: the first block that
\* starts with a brace and parses.
RECURSIVE first_parsable(_)
first_parsable(blocks) ==
    IF blocks = <<>> THEN Unparsable
    ELSE IF At(Head(blocks).content, 1) = "{"
            /\ ~json_loads_raises(Head(blocks).content)
    THEN Extracted(Head(blocks).content, "block", Head(blocks).start)
    ELSE first_parsable(Tail(blocks))

\* The closing brace that matches the opening brace at start, found by
\* counting braces; start itself when there is none.
RECURSIVE match_brace(_, _, _, _)
match_brace(s, start, i, depth) ==
    IF i > Len(s) THEN start
    ELSE IF s[i] = "{" THEN match_brace(s, start, i + 1, depth + 1)
    ELSE IF s[i] = "}"
    THEN IF depth = 1 THEN i ELSE match_brace(s, start, i + 1, depth - 1)
    ELSE match_brace(s, start, i + 1, depth)

\* A span is parsed as it is, then with its trailing commas removed.
parse_span(s, start, end, how) ==
    LET potential_json == SubSeq(s, start, end)
        cleaned == strip_trailing_commas(potential_json)
    IN  IF ~json_loads_raises(potential_json)
        THEN Extracted(potential_json, how, start)
        ELSE IF ~json_loads_raises(cleaned)
        THEN Extracted(cleaned, how, start)
        ELSE Unparsable

\* The loop over brace_positions, from the position start on.
RECURSIVE scan_braces(_, _)
scan_braces(s, start) ==
    IF start > Len(s) THEN Unparsable
    ELSE IF s[start] # "{" THEN scan_braces(s, start + 1)
    ELSE LET end == match_brace(s, start, start, 0)
             r   == parse_span(s, start, end, "span")
         IN  IF end > start /\ r.ok THEN r ELSE scan_braces(s, start + 1)

last_resort(s) ==
    LET opens  == {i \in 1..Len(s) : s[i] = "{"}
        closes == {i \in 1..Len(s) : s[i] = "}"}
        start  == CHOOSE i \in opens : \A k \in opens : i <= k
        end    == CHOOSE i \in closes : \A k \in closes : i >= k
    IN  IF opens # {} /\ closes # {} /\ end > start
        THEN parse_span(s, start, end, "outer")
        ELSE Unparsable

extract_json_from_response(text) ==
    LET blocks == first_parsable(find_blocks(text, 1, TRUE)
                                 \o find_blocks(text, 1, FALSE))
        spans  == scan_braces(text, 1)
    IN  IF ~json_loads_raises(text) THEN Extracted(text, "direct", 1)
        ELSE IF blocks.ok THEN blocks
        ELSE IF spans.ok THEN spans
        ELSE last_resort(text)

\* Replies.  The payloads: objects of scalar members, and objects with one
\* nested object or array.
FlatObjects == {<<"{", "}">>, <<"{", "v", "}">>, <<"{", "v", ",", "v", "}">>}
Arrays == {<<"[", "]">>, <<"[", "e", "]">>, <<"[", "e", ",", "e", "]">>}

Payloads ==
    FlatObjects
    \cup {<<"{", "n">> \o x \o <<"}">> : x \in FlatObjects \cup Arrays}
    \cup {<<"{", "n">> \o x \o <<",", "v", "}">> : x \in FlatObjects \cup Arrays}
    \cup {<<"{", "v", ",", "n">> \o x \o <<"}">> : x \in FlatObjects \cup Arrays}

\* What a service does to a payload: a comma before a closing brace or
\* bracket, a reply cut short, a token left out.
with_comma(s, i) == SubSeq(s, 1, i - 1) \o <<",">> \o SubSeq(s, i, Len(s))
cut_short(s, k)  == SubSeq(s, 1, k)
without(s, i)    == SubSeq(s, 1, i - 1) \o SubSeq(s, i + 1, Len(s))

TrailingCommaSpots(s) ==
    {i \in 2..Len(s) : s[i] \in {"}", "]"} /\ s[i - 1] \notin {"{", "[", ","}}

Bodies ==
    Payloads
    \cup UNION {{with_comma(s, i) : i \in TrailingCommaSpots(s)} : s \in Payloads}
    \cup UNION {{cut_short(s, k) : k \in 1..(Len(s) - 1)} : s \in Payloads}
    \cup UNION {{without(s, i) : i \in 1..Len(s)} : s \in Payloads}

\* The prose around a payload: none, words, words that quote an object.
Proses == {<<>>, <<"w">>, <<"w", "{", "v", "}", "w">>, <<"w", "{", "w", "}">>}

Fencings == {<<"", "">>, <<"F", "F">>, <<"J", "F">>}

\* A reply: prose, an opening fence or none, a body, a closing fence or
\* none, prose.
Reply(before, fence, body, after) ==
    [before |-> before, fence |-> fence, body |-> body, after |-> after,
     text |-> before
              \o (IF fence[1] = "" THEN <<>> ELSE <<fence[1]>>)
              \o body
              \o (IF fence[2] = "" THEN <<>> ELSE <<fence[2]>>)
              \o after]

LLMReplies ==
    {Reply(b, f, body, a) :
        b \in Proses, f \in Fencings, body \in Bodies, a \in Proses}

ExtInit ==
    /\ PipelineInit
    /\ ivk = IvkIdle
    /\ agg = AggIdle
    /\ trn = TrnIdle
    /\ pg = PgIdle
    /\ ext \in {[st |-> "input", reply |-> r, out |-> Unparsable,
                   error |-> <<>>] : r \in LLMReplies}

\* The extractor is applied to the reply and returns.
extract_returns ==
    /\ ext.st = "input"
    /\ extract_json_from_response(ext.reply.text).ok
    /\ ext' = [ext EXCEPT !.st = "returned",
                          !.out = extract_json_from_response(ext.reply.text)]
    /\ UNCHANGED <<pipeVars, ivk, agg, trn, pg>>

\* What an exception message is made of: literal text, and values
\* formatted into it.
Literal(str)    == [lit |-> str]
Formatted(text) == [raw |-> text]

\* The message of the ValueError the extractor raises for a reply.
could_not_extract(text) == <<Literal(Unparsable.error)>>

\* The extractor is applied to the reply and raises ValueError; the caller
\* does not catch it, and evaluate_exam records str(e) as the job's error.
extract_raises ==
    /\ ext.st = "input"
    /\ ~extract_json_from_response(ext.reply.text).ok
    /\ ext' = [ext EXCEPT !.st = "raised",
                          !.error = could_not_extract(ext.reply.text)]
    /\ UNCHANGED <<pipeVars, ivk, agg, trn, pg>>

ExtNext == extract_returns \/ extract_raises

ExtSpec == ExtInit /\ [][ExtNext]_vars

(***************************************************************************)
(* truncate_for_holistic and its three calls in holistic_evaluate.  A text *)
(* is given by its length n, its characters being the positions 1..n; a    *)
(* result is the list of its pieces, each a span of positions of the       *)
(* original or the marker.                                                 *)
(***************************************************************************)
MaxExcess == 2    \* how far past a budget the lengths around it go

Span(from, to) == [from |-> from, to |-> to]

\* "\n\n[...middle section truncated...]\n\n"
Marker == [marker |-> "[...middle section truncated...]"]

\* text[:k] and text[-k:] of a text of n characters, k >= 0.  Python reads
\* text[-0:] as text[0:], the whole text.
slice_to(n, k)   == Span(1, Min(k, n))
slice_last(n, k) == IF k = 0 \/ k >= n THEN Span(1, n) ELSE Span(n - k + 1, n)

\* The two parts taken half and half.
first_part_half(max_chars) == max_chars \div 2

\* int(max_chars * 0.6): the double product truncated.  For every budget up
\* to 200000 it is the integer floor of 6 * max_chars / 10.
first_part(max_chars) == (max_chars * 6) \div 10

last_part(max_chars) == max_chars - first_part(max_chars)

truncate_for_holistic(n, max_chars) ==
    IF n <= max_chars THEN <<Span(1, n)>>
    ELSE <<slice_to(n, first_part(max_chars)), Marker,
           slice_last(n, last_part(max_chars))>>

\* The budgets holistic_evaluate passes for the three texts.
Budget ==
    [question_paper |-> 15000, answer_key |-> 12000, student_answers |-> 15000]

Documents == DOMAIN Budget

\* Lengths of texts: empty, short, around each budget and each leading
\* part, and far beyond.
TextLengths ==
    {0, 1, 30000}
    \cup UNION {{b - 1, b, b + MaxExcess} \cap Nat :
                  b \in {Budget[d] : d \in Documents}}
    \cup {first_part(Budget[d]) + 1 : d \in Documents}

TrnInit ==
    /\ PipelineInit
    /\ ivk = IvkIdle
    /\ agg = AggIdle
    /\ ext = ExtIdle
    /\ pg = PgIdle
    /\ trn \in {[st |-> "input", len |-> l, out |-> EmptyDict] :
                  l \in [Documents -> TextLengths]}

\* holistic_evaluate truncates the three texts for the prompt.
build_prompt ==
    /\ trn.st = "input"
    /\ trn' = [trn EXCEPT !.st = "built",
                          !.out = [d \in Documents |->
                                     truncate_for_holistic(trn.len[d],
                                                           Budget[d])]]
    /\ UNCHANGED <<pipeVars, ivk, agg, ext, pg>>

TrnNext == build_prompt

TrnSpec == TrnInit /\ [][TrnNext]_vars

(***************************************************************************)
(* Stage 1 of evaluate_exam with extract_text_with_llm page by page.  A    *)
(* document is given by its number of pages; the text of a document is the *)
(* list of its page blocks, each "--- Page i ---" with what the service    *)
(* returned for the page.                                                  *)
(***************************************************************************)
MaxPages == 2

\* What the extraction service may return for a page.
PageContents == {"text", ""}

\* The documents in the order stage 1 extracts them on a cache miss.
DocOrder == <<"question_paper", "answer_key", "student_answers">>

\* f"--- Page {i + 1} ---\n{extracted}"
page_block(i, extracted) == [page |-> i + 1, content |-> extracted]

PgInit ==
    /\ PipelineInit
    /\ ivk = IvkIdle
    /\ agg = AggIdle
    /\ ext = ExtIdle
    /\ trn = TrnIdle
    /\ pg \in {[st |-> "extracting", pages |-> n, doc |-> 1, i |-> 0,
                 all_text |-> <<>>, texts |-> EmptyDict,
                 requests |-> <<>>, exam |-> EmptyDict, ckpt |-> EmptyDict] :
                  n \in [{DocOrder[d] : d \in 1..3} -> 0..MaxPages]}

\* One pass of the page loop: the call for page i + 1 returns and its block
\* is appended.
page_extracted ==
    /\ pg.st = "extracting"
    /\ pg.i < pg.pages[DocOrder[pg.doc]]
    /\ \E extracted \in PageContents :
          pg' = [pg EXCEPT
                   !.i = @ + 1,
                   !.requests = Append(@, <<DocOrder[pg.doc], pg.i + 1>>),
                   !.all_text = Append(@, page_block(pg.i, extracted))]
    /\ UNCHANGED <<pipeVars, ivk, agg, ext, trn>>

\* The loop skips a page whose call raises and goes on.
page_raises_skipped ==
    /\ pg.st = "extracting"
    /\ pg.i < pg.pages[DocOrder[pg.doc]]
    /\ pg' = [pg EXCEPT
                 !.i = @ + 1,
                 !.requests = Append(@, <<DocOrder[pg.doc], pg.i + 1>>)]
    /\ UNCHANGED <<pipeVars, ivk, agg, ext, trn>>

\* The call for page i + 1 raises: nothing catches it before evaluate_exam's
\* handler, which ends the run.
page_raises ==
    /\ pg.st = "extracting"
    /\ pg.i < pg.pages[DocOrder[pg.doc]]
    /\ pg' = [pg EXCEPT
                 !.st = "failed",
                 !.requests = Append(@, <<DocOrder[pg.doc], pg.i + 1>>)]
    /\ UNCHANGED <<pipeVars, ivk, agg, ext, trn>>

\* The loop is over: extract_text_with_llm returns the joined blocks.
\* After the answer key the shared entry is saved, after the student
\* document the job checkpoint.
document_extracted ==
    /\ pg.st = "extracting"
    /\ pg.i = pg.pages[DocOrder[pg.doc]]
    /\ LET d     == DocOrder[pg.doc]
           texts == Put(pg.texts, d, pg.all_text)
       IN  pg' = [pg EXCEPT
                    !.texts = texts,
                    !.all_text = <<>>,
                    !.i = 0,
                    !.doc = IF pg.doc < 3 THEN @ + 1 ELSE @,
                    !.st = IF pg.doc < 3 THEN @ ELSE "extracted",
                    !.exam = IF d = "answer_key"
                             THEN save_ocr_results(@, 1,
                                      texts["question_paper"],
                                      texts["answer_key"])
                             ELSE @,
                    !.ckpt = IF d = "student_answers"
                             THEN save_ocr_complete(@, 1,
                                      texts["question_paper"],
                                      texts["answer_key"],
                                      texts["student_answers"])
                             ELSE @]
    /\ UNCHANGED <<pipeVars, ivk, agg, ext, trn>>

PgNext == page_extracted \/ page_raises \/ document_extracted

PgSpec == PgInit /\ [][PgNext]_vars

(***************************************************************************)
(* Properties                                                              *)
(***************************************************************************)
Stage(c) == Get(c, "stage", "NONE")

StageRank(st) ==
    CASE st = "STARTED" -> 0
      [] st = "OCR_COMPLETE" -> 1
      [] st = "EVALUATION_COMPLETE" -> 2
      [] st = "AGGREGATION_COMPLETE" -> 3
      [] OTHER -> -1

UploadsIntact(j) ==
    /\ j \in DOMAIN uploads
    /\ {"question_paper", "answer_key", "student_sheet"}
          \subseteq DOMAIN uploads[j]

\* The run of job j entered the pipeline on a checkpoint of stage
\* OCR_COMPLETE that records the three texts.
EnteredAtOcrComplete(j) ==
    /\ entry[j].has
    /\ Stage(entry[j].ckpt) = "OCR_COMPLETE"
    /\ Get(entry[j].ckpt, "ocr_texts", EmptyDict) # EmptyDict
    /\ \A k \in {"question_paper", "answer_key", "student_answers"} :
          Get(entry[j].ckpt["ocr_texts"], k, NoText) # NoText

\* C1: a run that enters on an OCR_COMPLETE checkpoint holding the three
\* texts requests no extraction for any document, and the step that issues
\* its reasoning call passes exactly the checkpointed texts.
C1_ResumeSkipsExtraction ==
    [][\A j \in Jobs :
         EnteredAtOcrComplete(j) =>
            /\ ocrReq[j] = {}
            /\ pc[j] = "reason"
            /\ pc'[j] # "reason" =>
                  llmArgs'[j] = entry[j].ckpt["ocr_texts"]]_vars

\* C1 witness: such a run stands before its reasoning call, with or without
\* a cache entry.
C1_Witness ==
    \E j \in Jobs : EnteredAtOcrComplete(j) /\ pc[j] = "reason"

\* C2: once a reasoning call has returned a structured result for a job, no
\* later step of that job issues the reasoning call again.
C2_NoSecondReasoningCall ==
    [][\A j \in Jobs :
         (pc[j] = "reason" /\ pc'[j] # "reason") => ~evalDone[j]]_vars

PipelineFailures ==
    ExtractErrors \cup ReasonErrors \cup
        {"TypeError: '>' not supported", "OSError", "Missing PDF files"}

\* C4: when a run of a job has ended with an unrecoverable failure, the
\* job's status is failed and its error is the text of that failure.
C4_FailureIsRecorded ==
    \A j \in DOMAIN jobs :
        (pc[j] = "idle" /\ lastExc[j] \in PipelineFailures) =>
            jobs[j].status = "failed" /\ jobs[j].error = lastExc[j]

\* C5: after a run failed during extraction or during the reasoning call,
\* the job's checkpoint is the one written by the last stage commit (or is
\* absent when no stage was committed).
C5_FailureLeavesCheckpoint ==
    \A j \in Jobs :
        (pc[j] = "idle" /\ failedIn[j] \in {"extraction", "reasoning"}) =>
            ckpt_of(ckptFiles, j) = committed[j]

\* C5 witness: a run failed in the reasoning call after stage 1 had been
\* committed, and another failed in extraction with nothing committed.
C5_Witness ==
    /\ \E j \in Jobs : /\ pc[j] = "idle" /\ failedIn[j] = "reasoning"
                        /\ Stage(committed[j]) = "OCR_COMPLETE"
    /\ \E j \in Jobs : /\ pc[j] = "idle" /\ failedIn[j] = "extraction"
                        /\ committed[j] = EmptyDict

\* C6: a resume of a failed job whose documents are still stored re-enters
\* the pipeline (or schedules the task that does); it is not rejected.
C6_FailedJobIsResumable ==
    [][\A j \in DOMAIN jobs :
         (jobs[j].status = "failed" /\ pc[j] = "idle" /\ UploadsIntact(j)
            /\ nresume' > nresume /\ (pc'[j] # pc[j] \/ rtask'[j] # rtask[j]
                                        \/ lastExc'[j] # lastExc[j])) =>
                (pc'[j] = "start" \/ rtask'[j])]_vars

\* C7: the task scheduled by an accepted resume request re-enters the
\* pipeline (from where the job goes on to completed or failed).
C7_ResumeTaskReenters ==
    [][\A j \in DOMAIN jobs :
         (rtask[j] /\ ~rtask'[j] /\ pc[j] = "idle" /\ UploadsIntact(j)) =>
            pc'[j] = "start"]_vars

SharedTexts(d) ==
    <<Get(d, "question_paper_text", NoText), Get(d, "answer_key_text", NoText)>>

\* C8: a put on an entry that already holds both texts leaves the stored
\* texts as they were.
C8_PutIsWriteOnce ==
    (lastPut # EmptyDict /\ NoText \notin {SharedTexts(lastPut.pre)[1],
                                          SharedTexts(lastPut.pre)[2]}) =>
        SharedTexts(lastPut.post) = SharedTexts(lastPut.pre)

\* C9: once a cache entry holds both texts, no step of any job changes them.
C9_CompleteEntryIsImmutable ==
    [][\A e \in DOMAIN examFiles :
         EntryComplete(examFiles, e) =>
            /\ e \in DOMAIN examFiles'
            /\ SharedTexts(examFiles'[e]) = SharedTexts(examFiles[e])]_vars

SameSharedContent(i, j) ==
    /\ uploads[i]["question_paper"] = uploads[j]["question_paper"]
    /\ uploads[i]["answer_key"] = uploads[j]["answer_key"]
    /\ uploads[i]["student_sheet"] # uploads[j]["student_sheet"]

\* C11: two jobs with the same question paper and answer key content and
\* different student documents have the same fingerprint; once both are
\* completed there is exactly one cache entry for them and each job has a
\* checkpoint of its own, recorded under its own identity.
C11_OneEntryTwoCheckpoints ==
    \A i, j \in DOMAIN uploads :
        (i # j /\ SameSharedContent(i, j)) =>
            /\ exam_id_of(i) = exam_id_of(j)
            /\ (jobs[i].status = "completed" /\ jobs[j].status = "completed") =>
                  /\ Cardinality({e \in DOMAIN examFiles :
                                    e \in {exam_id_of(i), exam_id_of(j)}}) = 1
                  /\ {i, j} \subseteq DOMAIN ckptFiles
                  /\ ckptFiles[i]["job_id"] = i
                  /\ ckptFiles[j]["job_id"] = j

\* C11 witness: two jobs of the same exam with different student documents
\* are both completed.
C11_Witness ==
    \E i, j \in DOMAIN uploads :
        /\ i # j /\ SameSharedContent(i, j)
        /\ jobs[i].status = "completed" /\ jobs[j].status = "completed"
        /\ Cardinality(DOMAIN examFiles) = 1

\* The run of job j began stage 1 without a student text in its checkpoint
\* and with a complete cache entry for its fingerprint.
EnteredOnCacheHit(j) ==
    /\ entry[j].has
    /\ ~ocr_already_complete(Get(entry[j].ckpt, "ocr_texts", EmptyDict))
    /\ entry[j].cache # EmptyDict

\* C12: such a run requests no extraction of the question paper or the
\* answer key, works on the cached texts, and has requested the student
\* extraction by the time stage 1 is committed with those three texts.
C12_CacheHitSkipsSharedExtraction ==
    \A j \in Jobs :
        EnteredOnCacheHit(j) =>
            /\ ocrReq[j] \subseteq {"student_sheet"}
            /\ pc[j] \in {"student", "reason"}
            /\ loc[j].q = entry[j].cache["question_paper"]
            /\ loc[j].a = entry[j].cache["answer_key"]
            /\ pc[j] = "reason" =>
                  /\ ocrReq[j] = {"student_sheet"}
                  /\ Stage(ckptFiles[j]) = "OCR_COMPLETE"
                  /\ ckptFiles[j]["ocr_texts"] =
                        [question_paper |-> entry[j].cache["question_paper"],
                         answer_key |-> entry[j].cache["answer_key"],
                         student_answers |-> loc[j].s]

\* C12 witness: a run that began on a cache hit has committed stage 1, and
\* the texts it took from the cache are not the same text twice.
C12_Witness ==
    \E j \in Jobs :
        /\ EnteredOnCacheHit(j)
        /\ pc[j] = "reason"
        /\ entry[j].cache["question_paper"] # entry[j].cache["answer_key"]

\* C13: a resume or a run that loads a malformed checkpoint goes on as if
\* there were none: it does not end in the decoding error.
C13_MalformedLoadIsNoCheckpoint ==
    [][\A j \in Jobs :
         (load_raises(ckptFiles, j) /\ pc[j] \in {"idle", "start"}) =>
               lastExc'[j] # "JSONDecodeError"]_vars

\* C14: after a crash during a save, every checkpoint on disk is either
\* the one that was there before or a whole document.
C14_SaveIsAtomic ==
    [][ncrash' > ncrash =>
         \A j \in DOMAIN ckptFiles' :
            \/ j \in DOMAIN ckptFiles /\ ckptFiles'[j] = ckptFiles[j]
            \/ ~load_raises(ckptFiles', j)]_vars

\* C18: a completed job has a checkpoint of stage AGGREGATION_COMPLETE that
\* holds the final result, its result file is written, and the result in
\* the job store is that final result.
C18_CompletedJobHasResult ==
    \A j \in DOMAIN jobs :
        jobs[j].status = "completed" =>
            /\ j \in DOMAIN ckptFiles
            /\ Stage(ckptFiles[j]) = "AGGREGATION_COMPLETE"
            /\ Has(ckptFiles[j], "final_result")
            /\ j \in DOMAIN outFiles
            /\ outFiles[j] = ckptFiles[j]["final_result"]
            /\ jobs[j].result # NoResult
            /\ jobs[j].result = ckptFiles[j]["final_result"]

\* C18 witness: a job completed by a resumed run, after an earlier run of
\* it had failed.
C18_Witness ==
    \E j \in DOMAIN jobs :
        /\ jobs[j].status = "completed"
        /\ jobs[j].error # None
        /\ jobs[j].result = ckptFiles[j]["final_result"]

Transient == {"429", "413", "503", "timeout", "connect"}

\* The invoker call has so far met k outcomes, all of them 429.
OnlyRateLimited(k) ==
    /\ ivk.st # "idle"
    /\ Len(ivk.seen) = k
    /\ \A i \in 1..k : ivk.seen[i] = "429"

\* C15: while the server has answered 429 to each of the first k attempts
\* and the attempt limit is at least k+1, the call goes on to attempt k+1;
\* when that attempt gets a 200 the call returns the reply's content, and
\* every one of the k+1 requests carried the same body.
C15_SucceedsAfterRateLimits ==
    /\ \A k \in 1..MaxRetries :
          (OnlyRateLimited(k) /\ ivk.max_retries >= k + 1) =>
              /\ ivk.st = "loop"
              /\ ivk.attempt = k
    /\ \A k \in 0..MaxRetries :
          ( /\ ivk.st # "idle"
            /\ Len(ivk.seen) = k + 1
            /\ \A i \in 1..k : ivk.seen[i] = "429"
            /\ ivk.seen[k + 1] = "200" /\ ivk.body.wellformed ) =>
              /\ ivk.st = "returned"
              /\ ivk.result = Returned(ivk.body.content)
              /\ Len(ivk.sent) = k + 1
              /\ \A i \in 1..(k + 1) : ivk.sent[i] = ivk.sent[1]

\* C16: a call never sends more than max_retries requests, and a call whose
\* max_retries attempts all met a transient outcome has failed with the
\* exhausted-retries error once it is over.
C16_BoundedAttempts ==
    ivk.st # "idle" =>
        /\ Len(ivk.sent) <= ivk.max_retries
        /\ ( /\ ivk.st \in {"returned", "raised"}
              /\ ivk.api_key # ""
              /\ Len(ivk.seen) = ivk.max_retries
              /\ \A i \in 1..Len(ivk.seen) : ivk.seen[i] \in Transient ) =>
                ivk.result = Raised(ExhaustedError(ivk.svc))

\* C17: a call whose last attempt met a status other than 200, 429, 413
\* and 503 has failed with the upstream error of that status; it sent no
\* request after that attempt and slept only after the attempts before it.
C17_OtherStatusFailsAtOnce ==
    (ivk.st # "idle" /\ Len(ivk.seen) > 0
       /\ ivk.seen[Len(ivk.seen)] \in Statuses \ {"200", "429", "413", "503"}) =>
          /\ ivk.st = "raised"
          /\ ivk.result =
                Raised(UpstreamError(ivk.svc, ivk.seen[Len(ivk.seen)]))
          /\ Len(ivk.sent) = Len(ivk.seen)
          /\ ivk.nsleeps = Len(ivk.seen) - 1

\* C17 witness: a 500 on the third attempt, with attempts to spare, ended
\* the call.
C17_Witness ==
    /\ ivk.st = "raised"
    /\ Len(ivk.seen) = 3
    /\ ivk.seen[3] = "500"
    /\ ivk.max_retries > 3
    /\ ivk.nsleeps = 2

\* C19: the result attached to a completed job carries, for every section,
\* the subtotal the aggregation engine computes from the questions of the
\* reasoning reply (the capped sum of the best two), whatever subtotal the
\* reply states.  Violated: the pipeline stores the validated reply and the
\* engine is never applied.
C19_PersistedResultIsAggregated ==
    \A j \in DOMAIN jobs :
        jobs[j].status = "completed" =>
            \A sec \in Sections :
                jobs[j].result["section_wise_evaluation"][sec]["section_total"]
                = compute_final_result(
                      jobs[j].result["section_wise_evaluation"])
                  .section_totals[sec]

\* The cap the specification gives a section: 10 for A, 20 for B and C.
SectionCap(sec) == IF sec = "A" THEN Marks(10) ELSE Marks(20)

\* The section subtotals of a produced result, of either kind.
ProducedTotal(sec) ==
    IF agg.kind = "sections" THEN agg.out.section_totals[sec]
    ELSE Get(agg.out["section_wise_evaluation"][sec], "section_total", 0)

\* C20: in every produced result, the aggregation engine's and the validated
\* one the pipeline persists, each section's subtotal is at most the
\* section's cap, whatever the numeric input.
C20_SectionTotalWithinCap ==
    agg.st = "done" =>
        \A sec \in Sections :
            /\ ProducedTotal(sec) <= SectionCap(sec)
            /\ agg.kind = "sections" =>
                   agg.out.sections[sec].section_total <= SectionCap(sec)

\* C20 witness: the engine was given a section A whose two best questions
\* add up to more than the cap, and its subtotal is the cap.
C20_Witness ==
    /\ agg.st = "done" /\ agg.kind = "sections"
    /\ "A" \in DOMAIN agg.input
    /\ \E i, k \in 1..Len(agg.input["A"].questions) :
           /\ i # k
           /\ IsDictItem(agg.input["A"].questions[i])
           /\ IsDictItem(agg.input["A"].questions[k])
           /\ agg.input["A"].questions[i].data["question_total"]
              + agg.input["A"].questions[k].data["question_total"] > Marks(10)
    /\ agg.out.section_totals["A"] = Marks(10)

\* A validated reply that stated more than the cap for a section holds the
\* cap for it.
C20_ValidatedWitness ==
    /\ agg.st = "done" /\ agg.kind = "reply"
    /\ Has(agg.input, "section_wise_evaluation")
    /\ agg.input["section_wise_evaluation"]["B"]["section_total"] > Marks(20)
    /\ agg.out["section_wise_evaluation"]["B"]["section_total"] = Marks(20)

\* The engine has produced a final result.
Aggregated == agg.st = "done" /\ agg.kind = "sections"

\* The sum of the three section subtotals of the engine's result.
SumOfSubtotals ==
    agg.out.section_totals["A"] + agg.out.section_totals["B"]
    + agg.out.section_totals["C"]

\* C21: in the engine's final result the grand total is the sum of the three
\* section subtotals, the verdict is PASS exactly when it is at least 25 and
\* FAIL otherwise, and the percentage is grand total / 50 * 100 to the
\* nearest tenth; a grand total of 38 gives 76.0, grade A, PASS.
C21_VerdictAndPercentage ==
    Aggregated =>
        LET g == SumOfSubtotals
            p == agg.out.percentage
        IN  /\ agg.out.grand_total = g
            /\ agg.out.result = (IF g >= Marks(25) THEN "PASS" ELSE "FAIL")
            /\ 5 * p - g <= 2 /\ g - 5 * p <= 2
            /\ g = Marks(38) =>
                   /\ p = 760 /\ agg.out.grade = "A"
                   /\ agg.out.result = "PASS"

\* C21 witness: the engine produced a grand total of 38.
C21_Witness ==
    Aggregated /\ agg.out.grand_total = Marks(38)

\* The reply is prose, one fenced block, prose, and the content of the block
\* is an object but for the comma at position i, which stands before a
\* closing brace.
TrailingCommaBlock(r, i) ==
    /\ r.fence[1] # "" /\ r.fence[2] # ""
    /\ At(r.body, 1) = "{"
    /\ At(r.body, i) = "," /\ At(r.body, i + 1) = "}"
    /\ ~json_loads_raises(without(r.body, i))

\* C22: from a reply made of prose, a single fenced block holding an object
\* with a trailing comma before a closing brace, and more prose, the
\* extractor returns the object of the block without that comma.
\* Violated: an object quoted in the prose before the block is returned.
C22_RecoversFencedObject ==
    \A i \in 1..Len(ext.reply.body) :
        (ext.st # "input" /\ TrailingCommaBlock(ext.reply, i)) =>
            /\ ext.st = "returned"
            /\ ext.out.value = without(ext.reply.body, i)

\* The number of braces open before position i of a text.
RECURSIVE BraceDepth(_, _)
BraceDepth(s, i) ==
    IF i <= 1 THEN 0
    ELSE BraceDepth(s, i - 1)
         + (IF s[i - 1] = "{" THEN 1 ELSE IF s[i - 1] = "}" THEN -1 ELSE 0)

\* C23: the extractor never returns a fragment: what it returns from a span
\* of the reply is not an object nested in an outer object of the reply.
\* Violated: of a reply cut short after an inner object, the inner object
\* is returned.
C23_NoPartialResult ==
    (ext.st = "returned" /\ ext.out.how \in {"span", "outer"}) =>
        BraceDepth(ext.reply.text, ext.out.start) = 0

\* Job j has a stage-1 checkpoint.
HasStage1(F, j) == ocr_already_complete(get_ocr_texts(F, j))

\* C24: on a cache miss the steps of stage 1 come in the order question
\* paper, answer key, cache store, student document, checkpoint commit; a
\* run that fails in the student extraction leaves the cache entry complete
\* and no stage-1 checkpoint, and a run that starts while the entry is
\* complete requests neither shared document.
C24_Stage1Order ==
    [][\A j \in Jobs :
         /\ (pc[j] # "ak" /\ pc'[j] = "ak") =>
                /\ pc[j] = "qp"
                /\ ocrReq'[j] = {"question_paper"}
                /\ examFiles' = examFiles
         /\ (pc[j] = "ak" /\ pc'[j] = "student") =>
                /\ ocrReq'[j] = {"question_paper", "answer_key"}
                /\ StoredTexts(examFiles', exam_id_of(j)) =
                       [question_paper |-> loc'[j].q, answer_key |-> loc'[j].a]
                /\ ~HasStage1(ckptFiles', j)
         /\ (~HasStage1(ckptFiles, j) /\ HasStage1(ckptFiles', j)) =>
                /\ pc[j] = "student"
                /\ "student_sheet" \in ocrReq'[j]
                /\ EntryComplete(examFiles, exam_id_of(j))
         /\ (pc[j] = "student" /\ pc'[j] = "idle") =>
                /\ EntryComplete(examFiles', exam_id_of(j))
                /\ ~HasStage1(ckptFiles', j)
         /\ (pc[j] = "start" /\ pc'[j] # "start"
             /\ EntryComplete(examFiles, exam_id_of(j))) =>
                pc'[j] \notin {"qp", "ak"}]_vars

\* C24 witness: job j stored the shared texts and then failed in the
\* student extraction; job k, started afterwards, is past stage 1 without
\* having requested a shared document.
C24_Witness ==
    \E j, k \in Jobs :
        /\ j # k
        /\ j \in DOMAIN uploads /\ k \in DOMAIN uploads
        /\ j \in DOMAIN jobs /\ jobs[j].status = "failed"
        /\ failedIn[j] = "extraction"
        /\ ~HasStage1(ckptFiles, j)
        /\ sharedBy = {j}
        /\ EntryComplete(examFiles, exam_id_of(j))
        /\ exam_id_of(k) = exam_id_of(j)
        /\ EnteredOnCacheHit(k) /\ pc[k] = "reason"

\* The sleep the retry policy prescribes after outcome o of the attempt
\* numbered a, attempts being counted from 0.
PrescribedSleep(o, a) ==
    IF o.status \in {"429", "413"}
    THEN IF o.hint.form = "int" THEN o.hint.v + 2
         ELSE base_delay * 2 ^ (IF a < 4 THEN a ELSE 4)
    ELSE base_delay * 2 ^ (IF a < 3 THEN a ELSE 3)

\* Call c sleeps in this step.
Sleeps(c) == ivk'.st = "pair" /\ ivk'[c].nsleeps > ivk[c].nsleeps

\* C25: every sleep of either invoker is the prescribed one: hint + 2 after
\* a 429 or 413 with a retry-after hint, base_delay * 2^min(attempt, 4)
\* after one without, base_delay * 2^min(attempt, 3) after a 503, a timeout
\* or a connection failure; a sleep without hint is at most 16 * base_delay,
\* respectively 8 * base_delay, and is taken only after those outcomes.
C25_SleepFormula ==
    [][\A c \in {"groq", "fireworks"} :
         Sleeps(c) =>
            LET o == ivk'.last
                d == ivk'[c].delay
            IN  /\ o.status \in {"429", "413", "503", "timeout", "connect"}
                /\ d = PrescribedSleep(o, ivk[c].attempt)
                /\ ivk'[c].attempt = ivk[c].attempt + 1
                /\ (o.status \in {"429", "413"} /\ o.hint.form = "absent")
                      => d <= 16 * base_delay
                /\ o.status \in {"503", "timeout", "connect"}
                      => d <= 8 * base_delay]_vars

\* C25 witness: the sixth attempt of call_groq_api met a 429 without hint
\* and the call slept 16 * base_delay.
C25_Witness ==
    /\ ivk.st = "pair"
    /\ ivk.last.status = "429" /\ ivk.last.hint.form = "absent"
    /\ ivk.groq.attempt = 6
    /\ ivk.groq.nsleeps = 6
    /\ ivk.groq.delay = 16 * base_delay

\* The class of the outcome a call ended in.
OutcomeClass(c, svc) ==
    IF c.st = "loop" THEN "running"
    ELSE IF c.result.ok THEN "success"
    ELSE IF c.result.error = ExhaustedError(svc) THEN "exhausted retries"
    ELSE IF \E st \in Statuses : c.result.error = UpstreamError(svc, st)
    THEN "upstream error"
    ELSE "other"

\* C26: given the same max_retries and base_delay and the same outcome at
\* each attempt, the two invokers have made the same number of attempts,
\* slept the same delays and are in the same class of outcome.
\* Violated: a 200 response whose body has a null "usage" entry is a
\* success of call_groq_api and a failure of call_fireworks_api.
C26_InvokersAgree ==
    ivk.st = "pair" =>
        /\ ivk.groq.nsent = ivk.fireworks.nsent
        /\ ivk.groq.attempt = ivk.fireworks.attempt
        /\ ivk.groq.nsleeps = ivk.fireworks.nsleeps
        /\ ivk.groq.delay = ivk.fireworks.delay
        /\ OutcomeClass(ivk.groq, "groq")
              = OutcomeClass(ivk.fireworks, "fireworks")

\* The elements of a list.
Elems(list) == {list[i] : i \in 1..Len(list)}

\* The questions of section sec of the engine's input, the positions of
\* those that were answered (the entries that are question records), and
\* the position of the question with a given id.
InputQuestions(sec) == Get(agg.input[sec], "questions", <<>>)

Answered(sec) ==
    {i \in 1..Len(InputQuestions(sec)) : IsDictItem(InputQuestions(sec)[i])}

PositionOf(sec, id) ==
    CHOOSE i \in 1..Len(InputQuestions(sec)) : InputQuestions(sec)[i].id = id

\* The total of the question at position i, read off the input.
TotalAt(sec, i) == InputQuestions(sec)[i].data["question_total"]

RetainedOf(sec)  == agg.out.sections[sec].retained_questions
DiscardedOf(sec) == agg.out.sections[sec].discarded_questions

\* C27: in every section the retained and the discarded questions are
\* disjoint and together are the answered questions, without repetition;
\* min(number answered, 2) questions are retained, and none is discarded
\* when at most 2 were answered.
C27_RetainedDiscardedPartition ==
    Aggregated =>
        \A sec \in Sections \cap DOMAIN agg.input :
            LET ids == {InputQuestions(sec)[i].id : i \in Answered(sec)}
                n   == Cardinality(Answered(sec))
            IN  /\ Elems(RetainedOf(sec)) \cap Elems(DiscardedOf(sec)) = {}
                /\ Elems(RetainedOf(sec)) \cup Elems(DiscardedOf(sec)) = ids
                /\ Len(RetainedOf(sec)) + Len(DiscardedOf(sec)) = n
                /\ Len(RetainedOf(sec)) = (IF n <= 2 THEN n ELSE 2)
                /\ n <= 2 => DiscardedOf(sec) = <<>>

\* C27 witness: three questions of a section were answered, two are
\* retained and one is discarded.
C27_Witness ==
    /\ Aggregated
    /\ \E sec \in Sections \cap DOMAIN agg.input :
           /\ Cardinality(Answered(sec)) = 3
           /\ Len(RetainedOf(sec)) = 2 /\ Len(DiscardedOf(sec)) = 1

\* The sum of a set of numbers-at-positions.
RECURSIVE SumAt(_, _)
SumAt(sec, positions) ==
    IF positions = {} THEN 0
    ELSE LET i == CHOOSE x \in positions : TRUE
         IN  TotalAt(sec, i) + SumAt(sec, positions \ {i})

\* The largest sum that k of the answered questions of a section add up to.
BestSum(sec, k) ==
    LET sums == {SumAt(sec, S) :
                    S \in {T \in SUBSET Answered(sec) : Cardinality(T) = k}}
    IN  CHOOSE m \in sums : \A x \in sums : x <= m

\* C28: the subtotal of a section is the sum of its 2 largest question
\* totals (of all of them when fewer were answered), capped at the section
\* cap, and no discarded question has a larger total than a retained one;
\* section A with Q1 = 5, Q2 = 3, Q3 = 4 retains Q1 and Q3, discards Q2 and
\* has subtotal 9.
C28_SubtotalIsBestTwo ==
    Aggregated =>
        /\ \A sec \in Sections \cap DOMAIN agg.input :
              LET n    == Cardinality(Answered(sec))
                  best == BestSum(sec, IF n <= 2 THEN n ELSE 2)
              IN  /\ agg.out.section_totals[sec] =
                        (IF best <= SectionCap(sec) THEN best
                         ELSE SectionCap(sec))
                  /\ \A r \in Elems(RetainedOf(sec)),
                        d \in Elems(DiscardedOf(sec)) :
                        TotalAt(sec, PositionOf(sec, r))
                          >= TotalAt(sec, PositionOf(sec, d))
        /\ agg.input =
              [A |-> [questions |->
                        questions_of(<<Marks(5), Marks(3), Marks(4)>>)]] =>
              /\ Elems(RetainedOf("A")) = {1, 3}
              /\ DiscardedOf("A") = <<2>>
              /\ agg.out.section_totals["A"] = Marks(9)

\* C28 witness: the engine was given section A with Q1 = 5, Q2 = 3, Q3 = 4.
C28_Witness ==
    /\ Aggregated
    /\ agg.input =
          [A |-> [questions |-> questions_of(<<Marks(5), Marks(3), Marks(4)>>)]]
    /\ agg.out.section_totals["A"] = Marks(9)

\* C29: of two answered questions with equal totals, one retained and one
\* discarded, the retained one comes first in the input; the retained
\* questions with equal totals are listed in input order.
C29_TiesKeepInputOrder ==
    Aggregated =>
        \A sec \in Sections \cap DOMAIN agg.input :
            /\ \A r \in Elems(RetainedOf(sec)), d \in Elems(DiscardedOf(sec)) :
                  TotalAt(sec, PositionOf(sec, r))
                    = TotalAt(sec, PositionOf(sec, d))
                  => PositionOf(sec, r) < PositionOf(sec, d)
            /\ \A i, k \in 1..Len(RetainedOf(sec)) :
                  ( /\ i < k
                    /\ TotalAt(sec, PositionOf(sec, RetainedOf(sec)[i]))
                        = TotalAt(sec, PositionOf(sec, RetainedOf(sec)[k])) )
                  => PositionOf(sec, RetainedOf(sec)[i])
                       < PositionOf(sec, RetainedOf(sec)[k])

\* C29 witness: the second and the third question of a section have equal
\* totals, smaller than the first; the second is retained and the third
\* discarded.
C29_Witness ==
    /\ Aggregated
    /\ \E sec \in Sections \cap DOMAIN agg.input :
           /\ Answered(sec) = {1, 2, 3}
           /\ TotalAt(sec, 2) = TotalAt(sec, 3)
           /\ TotalAt(sec, 1) > TotalAt(sec, 2)
           /\ RetainedOf(sec) = <<InputQuestions(sec)[1].id,
                                   InputQuestions(sec)[2].id>>
           /\ DiscardedOf(sec) = <<InputQuestions(sec)[3].id>>

\* The sections an input of either kind lacks.
MissingSections ==
    IF agg.kind = "sections" THEN Sections \ DOMAIN agg.input
    ELSE IF Has(agg.input, "section_wise_evaluation")
    THEN Sections \ DOMAIN agg.input["section_wise_evaluation"]
    ELSE Sections

\* Every number of the input is one: no question total of an evaluated
\* section and no stated section total is a non-number.
AllNumeric ==
    IF agg.kind = "sections"
    THEN \A sec \in Sections \cap DOMAIN agg.input :
            \A i \in Answered(sec) : TotalAt(sec, i) # NonNumeric
    ELSE Has(agg.input, "section_wise_evaluation") =>
            \A sec \in DOMAIN agg.input["section_wise_evaluation"] :
                Get(agg.input["section_wise_evaluation"][sec],
                    "section_total", 0) # NonNumeric

\* C30: an input that lacks a section does not make the engine or the
\* validation step fail; the section gets a record with no questions and
\* subtotal 0, and the sections that are there get the subtotal they get
\* otherwise: the capped best two for the engine, the capped stated total
\* for the validation step.
C30_MissingSectionDefaults ==
    (agg.st # "idle" /\ MissingSections # {} /\ AllNumeric) =>
        /\ agg.st # "raised"
        /\ (agg.st = "done" /\ agg.kind = "sections") =>
              /\ \A sec \in MissingSections :
                    /\ agg.out.sections[sec].questions = <<>>
                    /\ agg.out.sections[sec].retained_questions = <<>>
                    /\ agg.out.sections[sec].discarded_questions = <<>>
                    /\ agg.out.sections[sec].section_total = 0
                    /\ agg.out.section_totals[sec] = 0
              /\ \A sec \in Sections \ MissingSections :
                    LET n    == Cardinality(Answered(sec))
                        best == BestSum(sec, IF n <= 2 THEN n ELSE 2)
                    IN  /\ agg.out.sections[sec].questions = InputQuestions(sec)
                        /\ agg.out.section_totals[sec] =
                              (IF best <= SectionCap(sec) THEN best
                               ELSE SectionCap(sec))
        /\ (agg.st = "done" /\ agg.kind = "reply") =>
              LET swe == agg.out["section_wise_evaluation"] IN
              /\ \A sec \in MissingSections :
                    /\ swe[sec]["questions"] = <<>>
                    /\ swe[sec]["retained"] = <<>>
                    /\ swe[sec]["section_total"] = 0
              /\ \A sec \in Sections \ MissingSections :
                    LET stated == Get(agg.input["section_wise_evaluation"][sec],
                                      "section_total", 0)
                    IN  swe[sec]["section_total"] =
                          (IF stated <= SectionCap(sec) THEN stated
                           ELSE SectionCap(sec))

\* C30 witness: the engine was given sections A and B only, both with
\* questions that score, and has produced a result with an empty section C.
C30_Witness ==
    /\ Aggregated
    /\ DOMAIN agg.input = {"A", "B"}
    /\ agg.out.section_totals["A"] > 0 /\ agg.out.section_totals["B"] > 0
    /\ agg.out.sections["C"].questions = <<>>
    /\ agg.out.section_totals["C"] = 0

\* The validation step was given a reply without section C and has filled
\* it in.
C30_ValidatedWitness ==
    /\ agg.st = "done" /\ agg.kind = "reply"
    /\ Has(agg.input, "section_wise_evaluation")
    /\ DOMAIN agg.input["section_wise_evaluation"] = {"A", "B"}
    /\ agg.out["section_wise_evaluation"]["C"]["section_total"] = 0

\* C31: an input that holds a non-numeric question score or section total
\* is still turned into a result: the operation that was given it has
\* completed, it has not raised.
C31_NonNumericCountsAsZero ==
    (agg.st \in {"done", "raised"} /\ ~AllNumeric) => agg.st = "done"

\* C32: when no payload can be recovered from the reply, the error recorded
\* for the failure carries the reply text as it was received.
C32_FailureCarriesRawReply ==
    ext.st = "raised" => Formatted(ext.reply.text) \in Elems(ext.error)

\* The positions of the original a truncated text keeps.
KeptPositions(out) ==
    UNION {p.from..p.to : p \in {q \in Elems(out) : q # Marker}}

\* C33: each of the three texts is cut against its own budget b, with
\* f = floor(0.6 * b): a text of at most b characters is passed whole; a
\* longer one becomes its first f characters, the marker and its last b - f
\* characters, so b characters are kept and a middle span is what is left
\* out.
C33_TruncationKeepsHeadAndTail ==
    trn.st = "built" =>
        \A d \in Documents :
            LET n == trn.len[d]
                b == Budget[d]
                f == (6 * b) \div 10
                out == trn.out[d]
            IN  /\ b \in {15000, 12000}
                /\ n <= b => out = <<Span(1, n)>>
                /\ n > b =>
                     /\ Len(out) = 3
                     /\ out[1] = Span(1, f)
                     /\ out[2] = Marker
                     /\ out[3] = Span(n - (b - f) + 1, n)
                     /\ Cardinality(KeptPositions(out)) = b
                     /\ (1..n) \ KeptPositions(out) = (f + 1)..(n - (b - f))
                     /\ (1..n) \ KeptPositions(out) # {}

\* C33 witness: in one prompt the question paper was over its budget and
\* cut, the answer key of the same length as the question paper's budget
\* was cut against its own smaller budget, and the student text was passed
\* whole.
C33_Witness ==
    /\ trn.st = "built"
    /\ trn.len["question_paper"] = 15000 + MaxExcess
    /\ trn.len["answer_key"] = 15000
    /\ trn.len["student_answers"] = 15000
    /\ Len(trn.out["question_paper"]) = 3
    /\ Len(trn.out["answer_key"]) = 3
    /\ trn.out["student_answers"] = <<Span(1, 15000)>>

\* A run of the job is going on.
Running(j) == pc[j] \notin {"none", "idle"}

\* C34: a run of a job begins only when none is going on for it; a
\* submission is given an identity nothing is stored under yet: no upload,
\* no job record, no checkpoint, no pending resume; and a resume request
\* is accepted only for a job whose status is neither processing nor
\* completed.
C34_OneRunPerJob ==
    [][\A j \in Jobs :
          /\ (pc'[j] = "start" /\ pc[j] # "start") => ~Running(j)
          /\ (j \notin DOMAIN uploads /\ j \in DOMAIN uploads') =>
                /\ pc[j] = "none"
                /\ j \notin DOMAIN jobs
                /\ j \notin DOMAIN ckptFiles
                /\ j \notin DOMAIN outFiles
                /\ ~rtask[j]
          /\ (~rtask[j] /\ rtask'[j]) =>
                /\ j \in DOMAIN jobs
                /\ jobs[j].status \notin {"processing", "completed"}]_vars

\* C34 witness: two submissions have received their identities, and a
\* resume request for one of the jobs has been accepted.
C34_Witness ==
    /\ Cardinality(DOMAIN uploads) = 2
    /\ \E j \in DOMAIN jobs : rtask[j] /\ jobs[j].status = "processing"

\* The final result recorded in the job's checkpoint, if there is one.
HasFinalResult(F, j) ==
    j \in DOMAIN F /\ ~load_raises(F, j) /\ Has(F[j], "final_result")

\* C35: a final result recorded in a job's checkpoint stays there as it
\* is: no step replaces it with a different one or removes it.
C35_FinalResultImmutable ==
    [][\A j \in Jobs :
         HasFinalResult(ckptFiles, j) =>
            /\ HasFinalResult(ckptFiles', j)
            /\ ckptFiles'[j]["final_result"] = ckptFiles[j]["final_result"]
      ]_vars

\* The total a reply states for a section, 0 when it states none, lowered
\* to the section's cap.
ClampedStated(sec) ==
    LET stated == IF Has(agg.input, "section_wise_evaluation")
                     /\ sec \in DOMAIN agg.input["section_wise_evaluation"]
                  THEN Get(agg.input["section_wise_evaluation"][sec],
                           "section_total", 0)
                  ELSE 0
    IN  IF stated > SectionCap(sec) THEN SectionCap(sec) ELSE stated

\* C36: the summary of a validated result is computed from its section
\* totals, whatever summary the reply carried: total_marks is the sum of the
\* three clamped section totals, at most 50; max_marks is 50; the verdict
\* is PASS exactly when total_marks is at least 25.
C36_SummaryRecomputed ==
    (agg.st = "done" /\ agg.kind = "reply") =>
        LET sum   == ClampedStated("A") + ClampedStated("B")
                     + ClampedStated("C")
            total == IF sum > Marks(50) THEN Marks(50) ELSE sum
            fs    == agg.out["final_summary"]
        IN  /\ fs["total_marks"] = total
            /\ fs["max_marks"] = Marks(50)
            /\ fs["result"] = "PASS" <=> total >= Marks(25)
            /\ fs["result"] \in {"PASS", "FAIL"}

\* C36 witness: the reply stated 50 marks and PASS; its two sections sum to
\* less than 25 after clamping, and the validated summary says so and FAIL.
C36_Witness ==
    /\ agg.st = "done" /\ agg.kind = "reply"
    /\ Has(agg.input, "final_summary")
    /\ agg.input["final_summary"]["result"] = "PASS"
    /\ agg.input["final_summary"]["total_marks"] = Marks(50)
    /\ agg.input["section_wise_evaluation"]["A"]["section_total"] > Marks(10)
    /\ agg.out["final_summary"]["total_marks"] = Marks(10)
    /\ agg.out["final_summary"]["result"] = "FAIL"

\* C37: a job whose status is completed keeps that status and its result
\* through every step of submission, pipeline and resume trigger.
C37_CompletedIsTerminal ==
    [][\A j \in DOMAIN jobs :
         jobs[j].status = "completed" =>
            /\ j \in DOMAIN jobs'
            /\ jobs'[j].status = "completed"
            /\ jobs'[j].result = jobs[j].result
            /\ jobs'[j].result # NoResult]_vars

\* C37 witness: a job is completed, a resume has been used on the way, and
\* the other job's run is under way beside it.
C37_Witness ==
    \E j, k \in DOMAIN jobs :
        /\ j # k
        /\ jobs[j].status = "completed"
        /\ nresume > 0
        /\ pc[k] = "reason"

\* C38: short of a restart of the process, a job record never loses its
\* error text or its result: the error text changes only when the job fails
\* anew, the result only when the job is completed, neither is ever reset
\* to None; and the steps of a run whose job the store does not know leave
\* the store without a record for it.
C38_StoreNeverClears ==
    [][ncrash' = ncrash =>
         \A j \in Jobs :
            /\ j \in DOMAIN jobs =>
                 /\ j \in DOMAIN jobs'
                 /\ jobs[j].error # None =>
                      /\ jobs'[j].error # None
                      /\ jobs'[j].status # "failed" =>
                            jobs'[j].error = jobs[j].error
                 /\ jobs[j].result # NoResult =>
                      /\ jobs'[j].result # NoResult
                      /\ jobs'[j].status # "completed" =>
                            jobs'[j].result = jobs[j].result
            /\ (j \notin DOMAIN jobs /\ j \in DOMAIN uploads) =>
                 j \notin DOMAIN jobs'
      ]_vars

\* C38 witness: a job that failed has been set to processing or completed
\* by a later run and still carries the error text of the failure.
C38_Witness ==
    \E j \in DOMAIN jobs :
        /\ jobs[j].status \in {"processing", "completed"}
        /\ jobs[j].error # None
        /\ nresume > 0

\* A run is under way for a job the store has no record of, past the point
\* where it reports its status.
C38_UnknownJobWitness ==
    \E j \in Jobs : j \notin DOMAIN jobs /\ pc[j] \in {"qp", "student"}

\* The texts the extraction stage has stored so far, by document: those of
\* the shared entry and those of the job checkpoint.
StoredInExam ==
    IF 1 \in DOMAIN pg.exam
    THEN [question_paper |-> pg.exam[1]["question_paper_text"],
          answer_key |-> pg.exam[1]["answer_key_text"]]
    ELSE EmptyDict

StoredInCheckpoint ==
    IF 1 \in DOMAIN pg.ckpt THEN pg.ckpt[1]["ocr_texts"] ELSE EmptyDict

\* The text has one block for each page of the document, in page order.
CoversAllPages(text, d) ==
    /\ Len(text) = pg.pages[d]
    /\ \A k \in 1..Len(text) : text[k].page = k

\* The pages requested so far for a document, in the order of the requests.
RequestedPages(d) ==
    LET of_d(r) == r[1] = d
        rs == SelectSeq(pg.requests, of_d)
    IN  [k \in 1..Len(rs) |-> rs[k][2]]

\* C39: the pages of a document are requested one after the other in page
\* order; every text stored in the shared entry or in the job checkpoint
\* has all pages of its document; and when the extraction of a page has
\* failed, no text of that document is stored anywhere.
C39_ExtractionAllOrNothing ==
    pg.st # "idle" =>
        /\ \A d \in DOMAIN pg.pages :
              /\ \A k \in 1..Len(RequestedPages(d)) : RequestedPages(d)[k] = k
              /\ Len(RequestedPages(d)) <= pg.pages[d]
        /\ \A d \in DOMAIN StoredInExam : CoversAllPages(StoredInExam[d], d)
        /\ \A d \in DOMAIN StoredInCheckpoint :
              CoversAllPages(StoredInCheckpoint[d], d)
        /\ pg.st = "failed" =>
              /\ DocOrder[pg.doc] \notin DOMAIN StoredInCheckpoint
              /\ DocOrder[pg.doc] \notin DOMAIN StoredInExam
              /\ DocOrder[pg.doc] = "student_answers" =>
                    StoredInCheckpoint = EmptyDict

\* C39 witness: the question paper was extracted in full, the second page
\* of the answer key failed after its first had been extracted, and neither
\* the shared entry nor the checkpoint holds anything.
C39_Witness ==
    /\ pg.st = "failed"
    /\ DocOrder[pg.doc] = "answer_key"
    /\ pg.pages["question_paper"] = MaxPages
    /\ Len(pg.texts["question_paper"]) = MaxPages
    /\ Len(pg.all_text) = 1
    /\ pg.exam = EmptyDict /\ pg.ckpt = EmptyDict

\* All three documents were extracted and both stores are written.
C39_StoredWitness ==
    /\ pg.st = "extracted"
    /\ \A d \in DOMAIN pg.pages : pg.pages[d] = MaxPages
    /\ DOMAIN StoredInExam = {"question_paper", "answer_key"}
    /\ DOMAIN StoredInCheckpoint = DOMAIN pg.pages

\* C40: in a final result of the engine the verdict is PASS exactly when
\* the grade is one of O, A+, A, B+, B, C, and FAIL exactly when it is D or
\* F.
C40_VerdictAgreesWithGrade ==
    Aggregated =>
        /\ agg.out.result = "PASS"
              <=> agg.out.grade \in {"O", "A+", "A", "B+", "B", "C"}
        /\ agg.out.result = "FAIL" <=> agg.out.grade \in {"D", "F"}

====
